---- MODULE Spec2Model ----
(***************************************************************************)
(* Memory access log, memory state and segment aggregation of the zkEVM    *)
(* (plonky2 evm crate): a verification model of                            *)
(*   evm/src/witness/memory.rs      MemoryAddress, MemoryOp, MemoryState   *)
(*   evm/tests/empty_txn_list.rs    the proving pipeline of an empty block *)
(***************************************************************************)
EXTENDS Integers, Sequences, FiniteSets, TLC

(***************************************************************************)
(* U256 (ethereum_types).  A U256 is kept at its true width as NumLimbs    *)
(* little-endian limbs of LimbBits bits each, so that "more than 32 bits"  *)
(* is decided on real 33-bit values.                                       *)
(***************************************************************************)
NumLimbs == 16
LimbBits == 16
UsizeLimbs == 4

Limbs == 1..NumLimbs

\* 2^k, 0 <= k < 31
RECURSIVE Pow2(_)
Pow2(k) == IF k = 0 THEN 1 ELSE 2 * Pow2(k - 1)

LimbBase == Pow2(LimbBits)

\* the U256 of value n * 2^(16*(k-1)), for a limb value n placed at limb k
U256_limb(k, n) == [i \in Limbs |-> IF i = k THEN n ELSE 0]

\* U256::zero()
U256_zero == [i \in Limbs |-> 0]

\* From<u8>/From<usize> for U256, for a value below 2^16
U256_from(n) == U256_limb(1, n)

\* 2^k as a U256, 0 <= k < 256
U256_pow2(k) == U256_limb((k \div LimbBits) + 1, Pow2(k % LimbBits))

\* 2^k - 1 as a U256, 0 <= k <= 256
U256_mask(k) ==
    [i \in Limbs |->
        IF i - 1 < k \div LimbBits THEN LimbBase - 1
        ELSE IF i - 1 = k \div LimbBits THEN Pow2(k % LimbBits) - 1
        ELSE 0]

\* number of bits of a limb value
RECURSIVE LimbLen(_)
LimbLen(n) == IF n = 0 THEN 0 ELSE 1 + LimbLen(n \div 2)

\* U256::bits: the position of the highest set bit, 0 for zero
U256_bits(x) ==
    LET nz == {i \in Limbs : x[i] # 0}
    IN  IF nz = {} THEN 0
        ELSE LET top == CHOOSE i \in nz : \A j \in nz : j <= i
             IN  LimbBits * (top - 1) + LimbLen(x[top])

\* Ord for U256: x < y, compared from the most significant limb down
U256_lt(x, y) ==
    \E i \in Limbs :
        /\ x[i] < y[i]
        /\ \A j \in Limbs : j > i => x[j] = y[j]

U256_ge(x, y) == ~U256_lt(x, y)

\* U256::as_usize on a 64-bit target: the low 64 bits, or a panic
\* ("Integer overflow when casting to usize") when higher bits are set
U256_fits_usize(x) == \A i \in Limbs : i > UsizeLimbs => x[i] = 0

U256_as_usize(x) == [i \in 1..UsizeLimbs |-> x[i]]

\* usize -> U256 (zero extension)
Usize_into(u) == [i \in Limbs |-> IF i <= UsizeLimbs THEN u[i] ELSE 0]


(***************************************************************************)
(* Segments (crate::memory::segments, outside the files at hand): the      *)
(* number of segments, the index of the code segment and the declared bit  *)
(* range of each segment's values.                                         *)
(***************************************************************************)
Segment_COUNT == 2
Segment_Code == 0
CodeBitRange == 8
WordBitRange == 256

bit_range(segment) == IF segment = Segment_Code THEN CodeBitRange ELSE WordBitRange

(***************************************************************************)
(* MemoryAddress                                                           *)
(***************************************************************************)
AddrBits == 32

\* MemoryAddress::new_u256s, with the two comparisons of a field's width as
\* written in the source
\* a faulty width test: a 32-bit context is refused
ContextTooWide_from32(context) == U256_bits(context) >= AddrBits

ContextTooWide(context) == U256_bits(context) > AddrBits
SegmentTooLarge(segment) == U256_ge(segment, U256_from(Segment_COUNT))
VirtTooWide(virt) == U256_bits(virt) > AddrBits

new_u256s(context, segment, virt) ==
    IF ContextTooWide(context)
    THEN [tag |-> "Err", error |-> "ContextTooLarge", carried |-> context]
    ELSE IF SegmentTooLarge(segment)
    THEN [tag |-> "Err", error |-> "SegmentTooLarge", carried |-> segment]
    ELSE IF VirtTooWide(virt)
    THEN [tag |-> "Err", error |-> "VirtTooLarge", carried |-> virt]
    ELSE IF ~(U256_fits_usize(context) /\ U256_fits_usize(segment)
              /\ U256_fits_usize(virt))
    THEN [tag |-> "Panic"]
    ELSE [tag |-> "Ok",
          address |-> [context |-> U256_as_usize(context),
                       segment |-> U256_as_usize(segment),
                       virt |-> U256_as_usize(virt)]]


(***************************************************************************)
(* MemoryOp.  In the memory state and the operation log the usize fields   *)
(* (context, segment, virt, timestamp, clock) are naturals.                *)
(***************************************************************************)
NUM_GP_CHANNELS == 2
NUM_CHANNELS == NUM_GP_CHANNELS + 1

\* enum MemoryChannel
Code == [variant |-> "Code", n |-> 0]
GeneralPurpose(n) == [variant |-> "GeneralPurpose", n |-> n]

\* a faulty index: the general purpose channels are counted from zero
index_gp_from_zero(channel) == IF channel.variant = "Code" THEN 0 ELSE channel.n

\* MemoryChannel::index, for a channel that passes its assertion
\* n < NUM_GP_CHANNELS
index(channel) == IF channel.variant = "Code" THEN 0 ELSE channel.n + 1

MemoryAddress_new(context, segment, virt) ==
    [context |-> context, segment |-> segment, virt |-> virt]

DUMMY_MEMOP ==
    [filter |-> FALSE, timestamp |-> 0,
     address |-> [context |-> 0, segment |-> 0, virt |-> 0],
     kind |-> "Read", value |-> U256_zero]

MemoryOp_new(channel, clock, address, kind, value) ==
    [filter |-> TRUE, timestamp |-> clock * NUM_CHANNELS + index(channel),
     address |-> address, kind |-> kind, value |-> value]

new_dummy_read(address, timestamp, value) ==
    [filter |-> FALSE, timestamp |-> timestamp, address |-> address,
     kind |-> "Read", value |-> value]

\* a faulty key: the timestamp is left out
sorting_key_no_timestamp(op) ==
    <<op.address.context, op.address.segment, op.address.virt, 0>>

sorting_key(op) ==
    <<op.address.context, op.address.segment, op.address.virt, op.timestamp>>

\* the order of the key tuples: lexicographic
KeyLess(a, b) ==
    \E i \in 1..4 : a[i] < b[i] /\ \A j \in 1..(i - 1) : a[j] = b[j]

\* one insertion of a stable sort: op goes behind every element whose key is
\* not greater than its own
RECURSIVE insert_by_key(_, _)
insert_by_key(done, op) ==
    IF done = <<>> THEN <<op>>
    ELSE IF KeyLess(sorting_key(op), sorting_key(Head(done)))
    THEN <<op>> \o done
    ELSE <<Head(done)>> \o insert_by_key(Tail(done), op)

\* memory_ops.sort_by_key(MemoryOp::sorting_key): a stable sort
RECURSIVE sort_from(_, _)
sort_from(done, rest) ==
    IF rest = <<>> THEN done
    ELSE sort_from(insert_by_key(done, Head(rest)), Tail(rest))

sort_by_key(log) == sort_from(<<>>, log)

(***************************************************************************)
(* MemoryState: contexts is the Vec<MemoryContextState>, context c at      *)
(* position c + 1; a context maps each segment index to its content, the   *)
(* Vec<U256> of the segment, offset v at position v + 1.  A call that      *)
(* panics is a result with panic = TRUE and the state as the panic left it.*)
(***************************************************************************)
\* MemorySegmentState::get
segment_get(content, virtual_addr) ==
    IF virtual_addr < Len(content) THEN content[virtual_addr + 1] ELSE U256_zero

\* a faulty resize: the new cells are filled with one instead of zero
resize_ones(content, new_len) ==
    content \o [i \in 1..(new_len - Len(content)) |-> U256_from(1)]

\* Vec::resize(new_len, U256::zero()) for new_len > len
resize(content, new_len) ==
    content \o [i \in 1..(new_len - Len(content)) |-> U256_zero]

\* a faulty set: the segment is cut behind the cell that is stored
segment_set_cut(content, virtual_addr, value) ==
    [i \in 1..(virtual_addr + 1) |->
        IF i = virtual_addr + 1 THEN value
        ELSE IF i <= Len(content) THEN content[i] ELSE U256_zero]

\* a faulty set: the value is pushed at the end instead of stored at its offset
segment_set_push(content, virtual_addr, value) ==
    Append(IF virtual_addr > Len(content) THEN resize(content, virtual_addr) ELSE content,
           value)

\* MemorySegmentState::set
segment_set(content, virtual_addr, value) ==
    LET grown == IF virtual_addr >= Len(content)
                 THEN resize(content, virtual_addr + 1)
                 ELSE content
    IN  [grown EXCEPT ![virtual_addr + 1] = value]

\* MemoryContextState::default
MemoryContextState_default == [s \in 0..(Segment_COUNT - 1) |-> <<>>]

\* MemoryState::default
MemoryState_default == <<MemoryContextState_default>>

\* MemoryState::new
MemoryState_new(kernel_code) ==
    [MemoryState_default EXCEPT
        ![1][Segment_Code] = [i \in 1..Len(kernel_code) |-> U256_from(kernel_code[i])]]

\* a faulty assertion: every value passes
InRange_any(val, segment) == TRUE

\* the assertion of get and set: val.bits() <= segment.bit_range()
InRange(val, segment) == U256_bits(val) <= bit_range(segment)

\* MemoryState::get
get(contexts, address) ==
    IF address.context >= Len(contexts)
    THEN [panic |-> FALSE, val |-> U256_zero]
    ELSE IF address.segment >= Segment_COUNT
    THEN [panic |-> TRUE, val |-> U256_zero]
    ELSE LET val == segment_get(contexts[address.context + 1][address.segment],
                                address.virt)
         IN  IF InRange(val, address.segment)
             THEN [panic |-> FALSE, val |-> val]
             ELSE [panic |-> TRUE, val |-> U256_zero]

\* the loop of set: push default contexts while address.context >= len
push_contexts(contexts, context) ==
    IF context >= Len(contexts)
    THEN contexts \o [i \in 1..(context + 1 - Len(contexts)) |-> MemoryContextState_default]
    ELSE contexts

\* MemoryState::set
set(contexts, address, val) ==
    LET grown == push_contexts(contexts, address.context)
    IN  IF address.segment >= Segment_COUNT
        THEN [panic |-> TRUE, contexts |-> grown]
        ELSE IF ~InRange(val, address.segment)
        THEN [panic |-> TRUE, contexts |-> grown]
        ELSE [panic |-> FALSE,
              contexts |->
                [grown EXCEPT ![address.context + 1][address.segment] =
                    segment_set(@, address.virt, val)]]

\* a faulty loop body: every operation is replayed, Reads included
apply_op_any_kind(contexts, op) == set(contexts, op.address, op.value)

\* one iteration of the loop of apply_ops
apply_op(contexts, op) ==
    IF op.kind = "Write"
    THEN set(contexts, op.address, op.value)
    ELSE [panic |-> FALSE, contexts |-> contexts]

\* a faulty replay: the log is replayed from its end to its start
RECURSIVE apply_ops_last_first(_, _)
apply_ops_last_first(contexts, ops) ==
    IF ops = <<>> THEN [panic |-> FALSE, contexts |-> contexts]
    ELSE LET r == apply_op(contexts, ops[Len(ops)])
         IN  IF r.panic THEN r
             ELSE apply_ops_last_first(r.contexts, SubSeq(ops, 1, Len(ops) - 1))

\* MemoryState::apply_ops: the operations in the log's order, up to a panic
RECURSIVE apply_ops(_, _)
apply_ops(contexts, ops) ==
    IF ops = <<>> THEN [panic |-> FALSE, contexts |-> contexts]
    ELSE LET r == apply_op(contexts, Head(ops))
         IN  IF r.panic THEN r ELSE apply_ops(r.contexts, Tail(ops))


(***************************************************************************)
(* RegistersState (witness/state.rs) and the snapshots the empty-block run *)
(* uses.  KERNEL.global_labels is outside the files at hand: a label is    *)
(* its address, "halt" the one the test gives.                             *)
(***************************************************************************)
Label_main == 0
Label_main_contd == 1
Label_halt == 40129

global_labels(name) ==
    CASE name = "main" -> Label_main
      [] name = "main_contd" -> Label_main_contd
      [] name = "halt" -> Label_halt

\* RegistersState::new_with_main_label
new_with_main_label ==
    [program_counter |-> global_labels("main_contd"), is_kernel |-> TRUE,
     stack_len |-> 0, stack_top |-> U256_zero, is_stack_top_read |-> FALSE,
     check_overflow |-> FALSE, context |-> 0, gas_used |-> 0]

\* RegistersState::new_last_registers_with_gas
new_last_registers_with_gas(gas_used) ==
    [program_counter |-> global_labels("halt"), is_kernel |-> TRUE,
     stack_len |-> 0, stack_top |-> U256_zero, is_stack_top_read |-> FALSE,
     check_overflow |-> FALSE, context |-> 0, gas_used |-> gas_used]

\* RegistersState::default
RegistersState_default ==
    [program_counter |-> global_labels("main"), is_kernel |-> TRUE,
     stack_len |-> 0, stack_top |-> U256_zero, is_stack_top_read |-> FALSE,
     check_overflow |-> FALSE, context |-> 0, gas_used |-> 0]

\* 146028888070 = 34 * 2^32 + 6, the stack top of the halted empty block
HaltStackTop == [i \in Limbs |-> IF i = 1 THEN 6 ELSE IF i = 3 THEN 34 ELSE 0]
HaltGasUsed == 2783

\* registers_after of the test: the default with the halt label, the stack
\* top and the gas used of the empty block
test_registers_after ==
    [RegistersState_default EXCEPT
        !.program_counter = Label_halt, !.stack_top = HaltStackTop,
        !.stack_len = 0, !.gas_used = HaltGasUsed]

(***************************************************************************)
(* PublicValues, proofs and the aggregation levels (proof.rs and           *)
(* fixed_recursive_verifier.rs are outside the files at hand: modelled     *)
(* from the design).  A MemCap is a sequence of hash values, a hash value  *)
(* one bit.  A proof holds its level, its public inputs, the lengths of    *)
(* its two caps and the public values of the leaf segments it covers, left *)
(* to right.                                                               *)
(***************************************************************************)
PublicValues(rb, ra, mb, ma) ==
    [registers_before |-> rb, registers_after |-> ra,
     mem_before |-> mb, mem_after |-> ma]

Bit(b) == IF b THEN 1 ELSE 0

\* the public inputs of a register snapshot, one element per field (the
\* stack top, a U256, is kept as one element)
registers_to_inputs(r) ==
    <<r.program_counter, Bit(r.is_kernel), r.stack_len, r.stack_top,
      Bit(r.is_stack_top_read), Bit(r.check_overflow), r.context, r.gas_used>>

RegistersLen == 8

registers_from_inputs(pis) ==
    [program_counter |-> pis[1], is_kernel |-> pis[2] = 1, stack_len |-> pis[3],
     stack_top |-> pis[4], is_stack_top_read |-> pis[5] = 1,
     check_overflow |-> pis[6] = 1, context |-> pis[7], gas_used |-> pis[8]]

\* the public inputs of a proof with public values pv
to_public_inputs(pv) ==
    registers_to_inputs(pv.registers_before) \o registers_to_inputs(pv.registers_after)
        \o pv.mem_before \o pv.mem_after

\* a faulty reconstruction: mem_after is read where mem_before lies
from_public_inputs_same_cap(pis, len_mem_cap_before, len_mem_cap_after) ==
    [registers_before |-> registers_from_inputs(SubSeq(pis, 1, RegistersLen)),
     registers_after |->
        registers_from_inputs(SubSeq(pis, RegistersLen + 1, 2 * RegistersLen)),
     mem_before |->
        SubSeq(pis, 2 * RegistersLen + 1, 2 * RegistersLen + len_mem_cap_before),
     mem_after |->
        SubSeq(pis, 2 * RegistersLen + 1, 2 * RegistersLen + len_mem_cap_after)]

\* PublicValues::from_public_inputs
from_public_inputs(pis, len_mem_cap_before, len_mem_cap_after) ==
    [registers_before |-> registers_from_inputs(SubSeq(pis, 1, RegistersLen)),
     registers_after |->
        registers_from_inputs(SubSeq(pis, RegistersLen + 1, 2 * RegistersLen)),
     mem_before |->
        SubSeq(pis, 2 * RegistersLen + 1, 2 * RegistersLen + len_mem_cap_before),
     mem_after |->
        SubSeq(pis, 2 * RegistersLen + len_mem_cap_before + 1,
               2 * RegistersLen + len_mem_cap_before + len_mem_cap_after)]

\* a proof of a level with public values pv over the leaf segments leaves;
\* the circuit that made it fixes the lengths of its two caps
Proof(level, pv, leaves) ==
    [level |-> level, public_inputs |-> to_public_inputs(pv),
     len_mem_cap_before |-> Len(pv.mem_before),
     len_mem_cap_after |-> Len(pv.mem_after), leaves |-> leaves]

\* the public values a proof exposes
proof_values(proof) ==
    from_public_inputs(proof.public_inputs, proof.len_mem_cap_before,
                       proof.len_mem_cap_after)

\* a faulty connection of the two children: the memory caps are not compared
inner_boundary_agrees_registers_only(lhs, rhs) ==
    lhs.registers_after = rhs.registers_before

\* the inner boundary of a pairwise aggregation: the left child's after
\* values against the right child's before values
inner_boundary_agrees(lhs, rhs) ==
    /\ lhs.registers_after = rhs.registers_before
    /\ lhs.mem_after = rhs.mem_before

\* a faulty aggregation: one proof is refused as both children
prove_segment_aggregation_distinct(lhs_is_agg, lhs_proof, lhs_pv, rhs_is_agg, rhs_proof, rhs_pv) ==
    IF lhs_proof = rhs_proof
          \/ lhs_is_agg # (lhs_proof.level = "segment_agg")
          \/ rhs_is_agg # (rhs_proof.level = "segment_agg")
          \/ lhs_pv # proof_values(lhs_proof) \/ rhs_pv # proof_values(rhs_proof)
          \/ ~inner_boundary_agrees(lhs_pv, rhs_pv)
    THEN [tag |-> "Err", error |-> "refused"]
    ELSE LET pv == PublicValues(lhs_pv.registers_before, rhs_pv.registers_after,
                                lhs_pv.mem_before, rhs_pv.mem_after)
         IN  [tag |-> "Ok", public_values |-> pv,
              proof |-> Proof("segment_agg", pv, lhs_proof.leaves \o rhs_proof.leaves)]

\* a faulty aggregation: the public values handed over are trusted, not
\* compared with the child proofs
prove_segment_aggregation_trusting(lhs_is_agg, lhs_proof, lhs_pv, rhs_is_agg, rhs_proof, rhs_pv) ==
    IF lhs_is_agg # (lhs_proof.level = "segment_agg")
          \/ rhs_is_agg # (rhs_proof.level = "segment_agg")
          \/ ~inner_boundary_agrees(lhs_pv, rhs_pv)
    THEN [tag |-> "Err", error |-> "refused"]
    ELSE LET pv == PublicValues(lhs_pv.registers_before, rhs_pv.registers_after,
                                lhs_pv.mem_before, rhs_pv.mem_after)
         IN  [tag |-> "Ok", public_values |-> pv,
              proof |-> Proof("segment_agg", pv, lhs_proof.leaves \o rhs_proof.leaves)]

\* prove_segment_aggregation(lhs_is_agg, lhs_proof, lhs_public_values,
\*                           rhs_is_agg, rhs_proof, rhs_public_values)
prove_segment_aggregation(lhs_is_agg, lhs_proof, lhs_pv, rhs_is_agg, rhs_proof, rhs_pv) ==
    IF lhs_is_agg # (lhs_proof.level = "segment_agg")
          \/ rhs_is_agg # (rhs_proof.level = "segment_agg")
    THEN [tag |-> "Err", error |-> "child proof is not of the level its flag says"]
    ELSE IF lhs_pv # proof_values(lhs_proof) \/ rhs_pv # proof_values(rhs_proof)
    THEN [tag |-> "Err", error |-> "public values are not the child proof's"]
    ELSE IF ~inner_boundary_agrees(lhs_pv, rhs_pv)
    THEN [tag |-> "Err", error |-> "children are not continuous"]
    ELSE LET pv == PublicValues(lhs_pv.registers_before, rhs_pv.registers_after,
                                lhs_pv.mem_before, rhs_pv.mem_after)
         IN  [tag |-> "Ok", public_values |-> pv,
              proof |-> Proof("segment_agg", pv, lhs_proof.leaves \o rhs_proof.leaves)]

\* the leaves of a proof are continuous and its public values are the outer
\* boundary of its leaves: what the circuits of the proof's level constrain
verify_proof(proof) ==
    LET pv == proof_values(proof)
        ls == proof.leaves
    IN  /\ \A i \in 1..(Len(ls) - 1) : inner_boundary_agrees(ls[i], ls[i + 1])
        /\ pv.registers_before = ls[1].registers_before
        /\ pv.mem_before = ls[1].mem_before
        /\ pv.registers_after = ls[Len(ls)].registers_after
        /\ pv.mem_after = ls[Len(ls)].mem_after

\* prove_transaction_aggregation(None, agg_proof, public_values): the
\* segment aggregate of one transaction, with no earlier transaction
prove_transaction_aggregation(agg_proof, pv) ==
    IF agg_proof.level # "segment_agg"
    THEN [tag |-> "Err", error |-> "child proof is not a segment aggregate"]
    ELSE IF pv # proof_values(agg_proof)
    THEN [tag |-> "Err", error |-> "public values are not the child proof's"]
    ELSE [tag |-> "Ok", public_values |-> pv,
          proof |-> Proof("txn_agg", pv, agg_proof.leaves)]

\* prove_block(None, agg_root_proof, public_values): the transaction
\* aggregate of a block, with no earlier block
prove_block(agg_root_proof, pv) ==
    IF agg_root_proof.level # "txn_agg"
    THEN [tag |-> "Err", error |-> "child proof is not a transaction aggregate"]
    ELSE IF pv # proof_values(agg_root_proof)
    THEN [tag |-> "Err", error |-> "public values are not the child proof's"]
    ELSE [tag |-> "Ok", public_values |-> pv,
          proof |-> Proof("block", pv, agg_root_proof.leaves)]

\* one bit of a cap's hash value i flipped
FlipBit(cap, i) == [cap EXCEPT ![i] = 1 - @]

(***************************************************************************)
(* State.                                                                  *)
(*   u256s, made     the three U256 words handed to new_u256s, its result  *)
(*   kernel_code     the code image MemoryState::new was given             *)
(*   contexts        MemoryState.contexts                                  *)
(*   written         the addresses a set has stored a value at             *)
(*   call            the last call on the memory state and what it returned*)
(*   calls           the number of calls made                              *)
(*   ops, sorted     the operation log of the segment, and the log sorted  *)
(*   proofs, last    the accepted proofs, and the last proving call        *)
(*   test            the locals of test_empty_txn_list and its position    *)
(*   final_values    the rows handed to MemAfterStark::generate_trace      *)
(*   trace           the columns generate_trace returned                   *)
(*   new_args        the channel and clock of each MemoryOp::new call      *)
(*   power           an extension-field element, its power so far and its  *)
(*                   frobenius                                             *)
(*   mul_call        the operands of a product of two extension-field      *)
(*                   elements, and what the product returned               *)
(***************************************************************************)
VARIABLES u256s, made, kernel_code, contexts, written, call, calls, ops, sorted,
          proofs, last, test, final_values, trace, new_args, power, mul_call

addrVars == <<u256s, made>>
memVars == <<kernel_code, contexts, written, call, calls>>
logVars == <<ops, sorted>>
aggVars == <<proofs, last, test>>
restVars == <<final_values, trace, new_args, power, mul_call>>
vars == <<u256s, made, kernel_code, contexts, written, call, calls, ops, sorted,
          proofs, last, test, final_values, trace, new_args, power, mul_call>>

NoCall == [name |-> "new", panic |-> FALSE]

AddrIdle == u256s = <<>> /\ made = [tag |-> "None"]
MemIdle ==
    /\ kernel_code = <<>>
    /\ contexts = MemoryState_default
    /\ written = {}
    /\ call = NoCall
    /\ calls = 0
LogIdle == ops = <<>> /\ sorted = <<>>
NoProving == [op |-> "none", tag |-> "Ok", error |-> "none", grew |-> FALSE]

AggIdle == proofs = {} /\ last = NoProving /\ test = [pc |-> "idle"]

NoTrace == [made |-> FALSE, columns |-> <<>>]
TableIdle == final_values = <<>> /\ trace = NoTrace
ClockIdle == new_args = <<>>
FieldIdle == power = [pc |-> "idle"]
MulIdle == mul_call = [pc |-> "idle"]
RestIdle == TableIdle /\ ClockIdle /\ FieldIdle /\ MulIdle

(***************************************************************************)
(* MemoryAddress::new_u256s on bounded inputs.                             *)
(***************************************************************************)
MaxInBits == 33

\* words around every width up to MaxInBits + 1 bits, a 65-bit word and the
\* largest U256
InWords ==
    {U256_pow2(k) : k \in 0..MaxInBits} \cup {U256_mask(k) : k \in 0..MaxInBits}
        \cup {U256_pow2(64), U256_mask(256)}

\* segment words: around Segment::COUNT, and wide ones
InSegments ==
    {U256_from(n) : n \in 0..(Segment_COUNT + 1)}
        \cup {U256_mask(32), U256_pow2(32), U256_pow2(64), U256_mask(256)}

InitAddr ==
    /\ RestIdle
    /\ u256s \in [context : InWords, segment : InSegments, virt : InWords]
    /\ made = [tag |-> "None"]
    /\ MemIdle
    /\ LogIdle
    /\ AggIdle

NewU256s ==
    /\ made.tag = "None"
    /\ made' = new_u256s(u256s.context, u256s.segment, u256s.virt)
    /\ UNCHANGED <<u256s, memVars, logVars, aggVars, restVars>>

NextAddr == NewU256s

SpecAddr == InitAddr /\ [][NextAddr]_vars


(***************************************************************************)
(* A memory state under a bounded run of set, get and apply_ops calls.     *)
(***************************************************************************)
MaxCalls == 3
MaxLogLen == 2

\* the bounded address space: two contexts (context 1 does not exist at the
\* start), every segment index up to the first unknown one, two offsets
Contexts == {0, 1}
Virts == {0, 1}

Addresses == [context : Contexts, segment : 0..Segment_COUNT, virt : Virts]

KnownAddresses == {a \in Addresses : a.segment < Segment_COUNT}

\* values of 0, 1 and 9 bits: the last exceeds the code segment's range
Values == {U256_zero, U256_from(1), U256_from(256)}

\* the code images MemoryState::new is given
KernelCodes == {<<>>, <<255>>}

SeqsUpTo(S, n) == UNION {[1..k -> S] : k \in 0..n}

\* operations on known addresses, of either kind and either filter
OpsAt(addresses) ==
    [filter : BOOLEAN, timestamp : {0}, address : addresses,
     kind : {"Read", "Write"}, value : Values]

\* the addresses of the code image MemoryState::new preloads
Preloaded ==
    {a \in Addresses :
        a.context = 0 /\ a.segment = Segment_Code /\ a.virt < Len(kernel_code)}

\* the addresses of the Writes apply_ops replays before it returns or panics
RECURSIVE WrittenBy(_, _)
WrittenBy(cs, log) ==
    IF log = <<>> THEN {}
    ELSE LET r == apply_op(cs, Head(log))
         IN  IF r.panic THEN {}
             ELSE (IF Head(log).kind = "Write" THEN {Head(log).address} ELSE {})
                      \cup WrittenBy(r.contexts, Tail(log))

Running == calls < MaxCalls /\ ~call.panic

InitMem ==
    /\ RestIdle
    /\ kernel_code \in KernelCodes
    /\ contexts = MemoryState_new(kernel_code)
    /\ written = {}
    /\ call = NoCall
    /\ calls = 0
    /\ AddrIdle
    /\ LogIdle
    /\ AggIdle

Set(address, val) ==
    /\ Running
    /\ LET r == set(contexts, address, val)
       IN  /\ contexts' = r.contexts
           /\ written' = IF r.panic THEN written ELSE written \cup {address}
           /\ call' = [name |-> "set", address |-> address, panic |-> r.panic]
    /\ calls' = calls + 1
    /\ UNCHANGED <<kernel_code, addrVars, logVars, aggVars, restVars>>

Get(address) ==
    /\ Running
    /\ LET r == get(contexts, address)
       IN  call' = [name |-> "get", address |-> address, panic |-> r.panic,
                    val |-> r.val]
    /\ calls' = calls + 1
    /\ UNCHANGED <<kernel_code, contexts, written, addrVars, logVars, aggVars, restVars>>

ApplyOps(log) ==
    /\ Running
    /\ LET r == apply_ops(contexts, log)
       IN  /\ contexts' = r.contexts
           /\ written' = written \cup WrittenBy(contexts, log)
           /\ call' = [name |-> "apply_ops", panic |-> r.panic]
    /\ calls' = calls + 1
    /\ UNCHANGED <<kernel_code, addrVars, logVars, aggVars, restVars>>

NextMem ==
    \/ \E a \in Addresses, v \in Values : Set(a, v)
    \/ \E a \in Addresses : Get(a)
    \/ \E log \in SeqsUpTo(OpsAt(KnownAddresses), 1) : ApplyOps(log)

SpecMem == InitMem /\ [][NextMem]_vars


(***************************************************************************)
(* One operation log applied to a fresh memory state, and applied again.   *)
(***************************************************************************)
\* the log's addresses: the first cell of the code image, a cell of another
\* segment, and two cells of a context that does not exist yet
LogAddresses == {a \in KnownAddresses : a.virt = a.context}

Logs == SeqsUpTo(OpsAt(LogAddresses), MaxLogLen)

InitLog ==
    /\ RestIdle
    /\ kernel_code \in KernelCodes
    /\ contexts = MemoryState_new(kernel_code)
    /\ written = {}
    /\ call = NoCall
    /\ calls = 0
    /\ ops \in Logs
    /\ sorted = <<>>
    /\ AddrIdle
    /\ AggIdle

\* memory.apply_ops(&ops), at most twice in a row
ApplyLog ==
    /\ calls < 2
    /\ ~call.panic
    /\ LET r == apply_ops(contexts, ops)
       IN  /\ contexts' = r.contexts
           /\ written' = written \cup WrittenBy(contexts, ops)
           /\ call' = [name |-> "apply_ops", panic |-> r.panic]
    /\ calls' = calls + 1
    /\ UNCHANGED <<kernel_code, addrVars, logVars, aggVars, restVars>>

NextLog == ApplyLog

SpecLog == InitLog /\ [][NextLog]_vars


(***************************************************************************)
(* Properties of MemoryAddress::new_u256s (SpecAddr).                      *)
(***************************************************************************)
\* x > 2^32 - 1
Over32Bits(x) == U256_lt(U256_mask(32), x)

\* x >= Segment::COUNT
NotASegment(x) == ~U256_lt(x, U256_from(Segment_COUNT))

\* C6: new_u256s returns an error exactly when the context has more than 32
\* bits, or the segment is at least Segment::COUNT, or virt has more than 32
\* bits; the error names a field that violates its bound and carries that
\* field's input; otherwise the address's three fields equal the inputs.
C6_NewU256sChecked ==
    made.tag # "None" =>
        /\ made.tag \in {"Ok", "Err"}
        /\ made.tag = "Err" <=>
              \/ Over32Bits(u256s.context)
              \/ NotASegment(u256s.segment)
              \/ Over32Bits(u256s.virt)
        /\ made.tag = "Err" =>
              \/ /\ made.error = "ContextTooLarge"
                 /\ Over32Bits(u256s.context)
                 /\ made.carried = u256s.context
              \/ /\ made.error = "SegmentTooLarge"
                 /\ NotASegment(u256s.segment)
                 /\ made.carried = u256s.segment
              \/ /\ made.error = "VirtTooLarge"
                 /\ Over32Bits(u256s.virt)
                 /\ made.carried = u256s.virt
        /\ made.tag = "Ok" =>
              /\ Usize_into(made.address.context) = u256s.context
              /\ Usize_into(made.address.segment) = u256s.segment
              /\ Usize_into(made.address.virt) = u256s.virt

\* a context of exactly 32 bits is accepted and the 33-bit virt is refused
C6_Witness ==
    /\ made.tag = "Err"
    /\ made.error = "VirtTooLarge"
    /\ u256s.context = U256_mask(32)
    /\ u256s.virt = U256_pow2(32)

(***************************************************************************)
(* Properties of MemoryState under set, get and apply_ops calls (SpecMem). *)
(***************************************************************************)
\* the step is a call of get on a known segment's address that no set has
\* stored a value at and that is outside the preloaded code image
GetOfNeverWritten ==
    /\ calls' = calls + 1
    /\ call'.name = "get"
    /\ call'.address.segment < Segment_COUNT
    /\ call'.address \notin written
    /\ call'.address \notin Preloaded

\* C7: after any sequence of set and apply_ops calls, get on a never-written
\* address outside the code image returns zero, does not fail and leaves the
\* state as it was, whether or not the address's context exists.
C7_GetNeverWrittenIsZero ==
    [][GetOfNeverWritten =>
          /\ ~call'.panic
          /\ call'.val = U256_zero
          /\ contexts' = contexts]_vars

\* get returned from a cell that exists (its context and its offset are
\* inside the state, grown by a set of a higher offset) and was never written
C7_Witness ==
    /\ call.name = "get"
    /\ ~call.panic
    /\ call.address \notin written
    /\ call.address \notin Preloaded
    /\ call.address.context = 1
    /\ call.address.context < Len(contexts)
    /\ call.address.segment < Segment_COUNT
    /\ call.address.virt < Len(contexts[call.address.context + 1][call.address.segment])

(***************************************************************************)
(* Properties of apply_ops on one log (SpecLog).                           *)
(***************************************************************************)
ReadsOnly(log) == \A i \in 1..Len(log) : log[i].kind = "Read"

ValuesInRange(log) ==
    \A i \in 1..Len(log) : U256_bits(log[i].value) <= bit_range(log[i].address.segment)

\* C8: apply_ops on a log that holds only Reads leaves the state unchanged:
\* the same contexts, the same segment lengths, the same values.
C8_ReadsOnlyUnchanged ==
    [][(calls' = calls + 1 /\ ReadsOnly(ops)) =>
          (~call'.panic /\ contexts' = contexts)]_vars

\* a log of Reads only was applied, one of them a Read of a non-zero value
\* in a context that does not exist
C8_Witness ==
    /\ calls >= 1
    /\ call.name = "apply_ops"
    /\ ops # <<>>
    /\ ReadsOnly(ops)
    /\ \E i \in 1..Len(ops) :
          /\ ops[i].address.context >= Len(contexts)
          /\ ops[i].value # U256_zero

\* C9: for a log whose values respect the segments' bit ranges, applying the
\* log a second time right after the first leaves the state as the first
\* application left it.
C9_ApplyTwiceSameAsOnce ==
    [][(calls = 1 /\ calls' = 2 /\ ValuesInRange(ops)) =>
          (~call'.panic /\ contexts' = contexts)]_vars

\* the log was applied twice and writes two different values to one address
\* of a context the first application created
C9_Witness ==
    /\ calls = 2
    /\ ~call.panic
    /\ ValuesInRange(ops)
    /\ Len(contexts) = 2
    /\ \E i, j \in 1..Len(ops) :
          /\ i < j
          /\ ops[i].kind = "Write" /\ ops[j].kind = "Write"
          /\ ops[i].address = ops[j].address
          /\ ops[i].address.context = 1
          /\ ops[i].value # ops[j].value


(***************************************************************************)
(* One operation log sorted by sorting_key and replayed (SpecSort).        *)
(***************************************************************************)
\* two cells of one segment whose range holds every value of Values
SortAddresses == {a \in KnownAddresses : a.context = 0 /\ a.segment # Segment_Code}

SortValues == {U256_from(1), U256_from(256)}

\* what MemoryOp::new, new_dummy_read and DUMMY_MEMOP build: real operations
\* of two channels at clock 0, padding reads at the same two timestamps
SortOps ==
    {MemoryOp_new(ch, 0, a, k, v) :
        ch \in {Code, GeneralPurpose(0)}, a \in SortAddresses, k \in {"Read", "Write"}, v \in SortValues}
    \cup {new_dummy_read(a, t, v) : a \in SortAddresses, t \in {0, 1}, v \in SortValues}
    \cup {DUMMY_MEMOP}

InitSort ==
    /\ RestIdle
    /\ kernel_code \in KernelCodes
    /\ contexts = MemoryState_new(kernel_code)
    /\ written = {}
    /\ call = NoCall
    /\ calls = 0
    /\ ops \in SeqsUpTo(SortOps, MaxLogLen)
    /\ sorted = <<>>
    /\ AddrIdle
    /\ AggIdle

\* the log is sorted, and the sorted log replayed into the memory state
SortAndReplay ==
    /\ calls = 0
    /\ sorted' = sort_by_key(ops)
    /\ LET r == apply_ops(contexts, sorted')
       IN  /\ contexts' = r.contexts
           /\ written' = written \cup WrittenBy(contexts, sorted')
           /\ call' = [name |-> "replay", panic |-> r.panic]
    /\ calls' = 1
    /\ UNCHANGED <<kernel_code, ops, addrVars, aggVars, restVars>>

NextSort == SortAndReplay

SpecSort == InitSort /\ [][NextSort]_vars

\* the log in another input order: position i holds the operation p[i]
Reordered(log, p) == [i \in 1..Len(log) |-> log[p[i]]]

Orders(log) == Permutations(1..Len(log))

\* the memory state a log gives when sorted and replayed from the start state
Replayed(log) == apply_ops(MemoryState_new(kernel_code), sort_by_key(log)).contexts

\* any two operations of the log with the same context, segment, virt and
\* timestamp have the same kind and the same value
SameKeySameEffect(log) ==
    \A i, j \in 1..Len(log) :
        (/\ log[i].address = log[j].address
         /\ log[i].timestamp = log[j].timestamp)
            => (log[i].kind = log[j].kind /\ log[i].value = log[j].value)

\* two sorted logs agree row by row on key, kind and value
SameRows(s, t) ==
    /\ Len(s) = Len(t)
    /\ \A i \in 1..Len(s) :
          /\ s[i].address = t[i].address
          /\ s[i].timestamp = t[i].timestamp
          /\ s[i].kind = t[i].kind
          /\ s[i].value = t[i].value

MaxProofs == 4

\* the boundary values of the segments: the start of the empty block, its
\* halt, and the halt over a memory image that differs in one bit
Boundaries ==
    {[registers |-> new_with_main_label, mem |-> <<0>>],
     [registers |-> test_registers_after, mem |-> <<0>>],
     [registers |-> test_registers_after, mem |-> <<1>>]}

\* the public values of a proof, as they are or with one bit of mem_before or
\* of mem_after flipped
Handed(proof) ==
    LET pv == proof_values(proof)
    IN  {pv}
        \cup {[pv EXCEPT !.mem_after = FlipBit(@, i)] : i \in 1..Len(pv.mem_after)}
        \cup {[pv EXCEPT !.mem_before = FlipBit(@, i)] : i \in 1..Len(pv.mem_before)}

IsAgg(proof) == proof.level = "segment_agg"

\* the calls of prove_segment_aggregation on a pair: the honest one, one with
\* a wrong level flag, one with tampered public values on one side
Attempts(lhs, rhs) ==
    LET call_of(la, lpv, ra, rpv) ==
            [lhs_is_agg |-> la, lhs_pv |-> lpv, rhs_is_agg |-> ra, rhs_pv |-> rpv]
    IN  {call_of(IsAgg(lhs), lpv, IsAgg(rhs), proof_values(rhs)) : lpv \in Handed(lhs)}
        \cup {call_of(IsAgg(lhs), proof_values(lhs), IsAgg(rhs), rpv) : rpv \in Handed(rhs)}
        \cup {call_of(la, proof_values(lhs), IsAgg(rhs), proof_values(rhs)) : la \in BOOLEAN}
        \cup {call_of(IsAgg(lhs), proof_values(lhs), ra, proof_values(rhs)) : ra \in BOOLEAN}

InitAgg ==
    /\ RestIdle
    /\ proofs = {}
    /\ last = NoProving
    /\ test = [pc |-> "idle"]
    /\ AddrIdle
    /\ MemIdle
    /\ LogIdle

\* prove_root: a leaf proof of one segment
ProveRoot(before, after) ==
    /\ Cardinality(proofs) < MaxProofs
    /\ LET pv == PublicValues(before.registers, after.registers, before.mem, after.mem)
       IN  proofs' = proofs \cup {Proof("root", pv, <<pv>>)}
    /\ last' = [op |-> "prove_root", tag |-> "Ok", error |-> "none",
                grew |-> proofs' # proofs]
    /\ UNCHANGED <<test, addrVars, memVars, logVars, restVars>>

\* prove_segment_aggregation on two accepted proofs
ProveSegmentAggregation(lhs, rhs, c) ==
    LET r == prove_segment_aggregation(c.lhs_is_agg, lhs, c.lhs_pv,
                                       c.rhs_is_agg, rhs, c.rhs_pv)
    IN  /\ r.tag = "Ok" => Cardinality(proofs \cup {r.proof}) <= MaxProofs
        /\ proofs' = IF r.tag = "Ok" THEN proofs \cup {r.proof} ELSE proofs
        /\ last' = [op |-> "prove_segment_aggregation", tag |-> r.tag,
                    error |-> IF r.tag = "Err" THEN r.error ELSE "none",
                    grew |-> proofs' # proofs]
        /\ UNCHANGED <<test, addrVars, memVars, logVars, restVars>>

NextAgg ==
    \/ \E before, after \in Boundaries : ProveRoot(before, after)
    \/ \E lhs, rhs \in proofs : \E c \in Attempts(lhs, rhs) :
          ProveSegmentAggregation(lhs, rhs, c)

SpecAgg == InitAgg /\ [][NextAgg]_vars


(***************************************************************************)
(* Properties of pairwise aggregation (SpecAgg).                           *)
(***************************************************************************)
\* the call of prove_segment_aggregation that an attempt c on (lhs, rhs) is
Attempted(lhs, rhs, c) ==
    prove_segment_aggregation(c.lhs_is_agg, lhs, c.lhs_pv, c.rhs_is_agg, rhs, c.rhs_pv)

\* C1: the leaves of every accepted proof, read left to right, form a chain:
\* each leaf's registers_after and mem_after are the next leaf's
\* registers_before and mem_before; the proof's before values are its first
\* leaf's and its after values its last leaf's.
C1_LeavesFormAChain ==
    \A p \in proofs :
        LET pv == proof_values(p)
            n == Len(p.leaves)
        IN  /\ \A i \in 1..(n - 1) :
                  /\ p.leaves[i].registers_after = p.leaves[i + 1].registers_before
                  /\ p.leaves[i].mem_after = p.leaves[i + 1].mem_before
            /\ pv.registers_before = p.leaves[1].registers_before
            /\ pv.mem_before = p.leaves[1].mem_before
            /\ pv.registers_after = p.leaves[n].registers_after
            /\ pv.mem_after = p.leaves[n].mem_after

\* an aggregate of an aggregate and a leaf was accepted: three leaves, the
\* first of which changes the registers
C1_Witness ==
    \E p \in proofs :
        /\ p.level = "segment_agg"
        /\ Len(p.leaves) = 3
        /\ p.leaves[1].registers_before # p.leaves[1].registers_after

\* C2: a pairwise aggregation whose left child's registers_after or mem_after
\* differs from the right child's registers_before or mem_before fails with
\* an error and adds no proof; so does one with a bit of a child's mem_after
\* flipped while the sibling is handed over unchanged, and so does the swap
\* of an accepted pair whose outer boundaries differ.
C2_DiscontinuityRejected ==
    /\ \A lhs, rhs \in proofs : \A c \in Attempts(lhs, rhs) :
          LET r == Attempted(lhs, rhs, c)
              mismatch == \/ c.lhs_pv.registers_after # c.rhs_pv.registers_before
                          \/ c.lhs_pv.mem_after # c.rhs_pv.mem_before
              flipped == \/ /\ c.lhs_pv.mem_after # proof_values(lhs).mem_after
                            /\ c.rhs_pv = proof_values(rhs)
                         \/ /\ c.rhs_pv.mem_after # proof_values(rhs).mem_after
                            /\ c.lhs_pv = proof_values(lhs)
              swapped == Attempted(rhs, lhs,
                                   [lhs_is_agg |-> c.rhs_is_agg, lhs_pv |-> c.rhs_pv,
                                    rhs_is_agg |-> c.lhs_is_agg, rhs_pv |-> c.lhs_pv])
          IN  /\ (mismatch \/ flipped) => (r.tag = "Err" /\ "proof" \notin DOMAIN r)
              /\ (/\ r.tag = "Ok"
                  /\ \/ c.lhs_pv.registers_before # c.rhs_pv.registers_after
                     \/ c.lhs_pv.mem_before # c.rhs_pv.mem_after)
                    => swapped.tag = "Err"
    /\ (last.op = "prove_segment_aggregation" /\ last.tag = "Err") => ~last.grew

\* an aggregation of two children that are not continuous was refused, and
\* the pool holds a continuous pair with different outer boundaries
C2_Witness ==
    /\ last.op = "prove_segment_aggregation"
    /\ last.tag = "Err"
    /\ last.error = "children are not continuous"
    /\ \E lhs, rhs \in proofs :
          /\ inner_boundary_agrees(proof_values(lhs), proof_values(rhs))
          /\ proof_values(lhs).registers_before # proof_values(rhs).registers_after
          /\ proof_values(rhs).mem_after # proof_values(lhs).mem_before

\* C4: a segment proof whose after values equal its before values is accepted
\* as the right child of every proof whose after values equal its before
\* values, itself included, and the aggregate verifies.
C4_TrivialContinuationAccepted ==
    \A lhs, rhs \in proofs :
        LET lpv == proof_values(lhs)
            rpv == proof_values(rhs)
            r == prove_segment_aggregation(IsAgg(lhs), lhs, lpv, IsAgg(rhs), rhs, rpv)
        IN  (/\ rhs.level = "root"
             /\ rpv.registers_after = rpv.registers_before
             /\ rpv.mem_after = rpv.mem_before
             /\ lpv.registers_after = rpv.registers_before
             /\ lpv.mem_after = rpv.mem_before)
                => (r.tag = "Ok" /\ verify_proof(r.proof))

\* a segment proof with equal before and after values was aggregated with
\* itself
C4_Witness ==
    /\ last.op = "prove_segment_aggregation"
    /\ last.tag = "Ok"
    /\ \E p \in proofs :
          /\ p.level = "segment_agg"
          /\ Len(p.leaves) = 2
          /\ p.leaves[1] = p.leaves[2]
          /\ p.leaves[1].registers_before = p.leaves[1].registers_after
          /\ p.leaves[1].mem_before = p.leaves[1].mem_after


(***************************************************************************)
(* test_empty_txn_list from its first proving call on (SpecPipeline).  The *)
(* provers and verifiers are outside the files at hand: a prover returns   *)
(* an error or a proof with its public values (a root prover with memory   *)
(* caps of its own, of the length the configuration fixes), a verifier an  *)
(* error or, for a proof whose constraints hold, its acceptance.  `?`      *)
(* returns the error from the test; a failed assert_eq! panics.            *)
(***************************************************************************)
MaxCapLen == 2

\* the caps of len hash values
MemCaps(len) == [1..len -> {0, 1}]

None == [tag |-> "None"]
Some(r) == [tag |-> "Some", proof |-> r.proof, public_values |-> r.public_values]

\* a faulty `?`: the error is recorded and the test goes on where it was
Return_and_go_on(t, outcome) == [t EXCEPT !.outcome = outcome]

\* the test function returns with an outcome: "Ok", "Err" or "panicked"
Return(t, outcome) == [t EXCEPT !.pc = "returned", !.outcome = outcome]

\* the inputs of the two segments: `inputs`, and `final_inputs` whose
\* registers_before are its registers_after
inputs_registers_before == new_with_main_label
inputs_registers_after == test_registers_after
final_inputs_registers_before == test_registers_after
final_inputs_registers_after == test_registers_after

\* prove_root: an error, or a root proof over the inputs' registers
prove_root(rb, ra, cap_len) ==
    {[tag |-> "Err"]}
    \cup {LET pv == PublicValues(rb, ra, mb, ma)
          IN  [tag |-> "Ok", public_values |-> pv, proof |-> Proof("root", pv, <<pv>>)] :
            mb \in MemCaps(cap_len), ma \in MemCaps(cap_len)}

\* verify_root, verify_segment_aggregation, verify_txn_aggregation,
\* verify_block, verifier.verify: the results a verifier may give for a proof
verify(proof) == {"Err"} \cup (IF verify_proof(proof) THEN {"Ok"} ELSE {})

InitPipeline ==
    /\ RestIdle
    /\ \E cap_len \in 1..MaxCapLen :
          test = [pc |-> "prove_final_root", outcome |-> "running", cap_len |-> cap_len,
                  final_root |-> None, root |-> None, segmented_agg |-> None,
                  txn |-> None, block |-> None]
    /\ proofs = {}
    /\ last = NoProving
    /\ AddrIdle
    /\ MemIdle
    /\ LogIdle

PipelineFrame == UNCHANGED <<proofs, last, addrVars, memVars, logVars, restVars>>

\* a proving call followed by `?`: r is what the prover returned
Proved(at, field, r, next) ==
    /\ test.pc = at
    /\ test' = IF r.tag = "Ok"
               THEN [test EXCEPT !.pc = next, ![field] = Some(r)]
               ELSE Return(test, "Err")
    /\ PipelineFrame

\* a verifying call followed by `?`
Verified(at, field, next) ==
    /\ test.pc = at
    /\ \E v \in verify(test[field].proof) :
          test' = IF v = "Ok" THEN [test EXCEPT !.pc = next] ELSE Return(test, "Err")
    /\ PipelineFrame

\* assert_eq!(PublicValues::from_public_inputs(..), public_values)
Asserted(at, field, len_before, len_after, next) ==
    /\ test.pc = at
    /\ LET retrieved_public_values ==
               from_public_inputs(test[field].proof.public_inputs, len_before, len_after)
       IN  test' = IF retrieved_public_values = test[field].public_values
                   THEN [test EXCEPT !.pc = next]
                   ELSE Return(test, "panicked")
    /\ PipelineFrame

ProveFinalRoot ==
    \E r \in prove_root(final_inputs_registers_before, final_inputs_registers_after,
                          test.cap_len) :
        Proved("prove_final_root", "final_root", r, "verify_final_root")

VerifyFinalRoot == Verified("verify_final_root", "final_root", "prove_root")

ProveFirstRoot ==
    \E r \in prove_root(inputs_registers_before, inputs_registers_after, test.cap_len) :
        Proved("prove_root", "root", r, "verify_root")

VerifyFirstRoot == Verified("verify_root", "root", "assert_root")

AssertFirstRoot ==
    /\ test.pc = "assert_root"
    /\ Asserted("assert_root", "root",
                Len(test.root.public_values.mem_before),
                Len(test.root.public_values.mem_after), "assert_final_root")

AssertFinalRoot ==
    /\ test.pc = "assert_final_root"
    /\ Asserted("assert_final_root", "final_root",
                Len(test.final_root.public_values.mem_before),
                Len(test.final_root.public_values.mem_after), "prove_segment_aggregation")

ProveSegmentAgg ==
    /\ test.pc = "prove_segment_aggregation"
    /\ Proved("prove_segment_aggregation", "segmented_agg",
              prove_segment_aggregation(FALSE, test.root.proof, test.root.public_values,
                                        FALSE, test.final_root.proof,
                                        test.final_root.public_values),
              "verify_segment_aggregation")

VerifySegmentAgg ==
    Verified("verify_segment_aggregation", "segmented_agg", "assert_segment_aggregation")

\* the test hands the length of mem_before for both caps
AssertSegmentAgg ==
    /\ test.pc = "assert_segment_aggregation"
    /\ Asserted("assert_segment_aggregation", "segmented_agg",
                Len(test.segmented_agg.public_values.mem_before),
                Len(test.segmented_agg.public_values.mem_before),
                "prove_transaction_aggregation")

ProveTxn ==
    /\ test.pc = "prove_transaction_aggregation"
    /\ \E r \in {[tag |-> "Err"],
                 prove_transaction_aggregation(test.segmented_agg.proof,
                                               test.segmented_agg.public_values)} :
          Proved("prove_transaction_aggregation", "txn", r, "verify_txn_aggregation")

VerifyTxn == Verified("verify_txn_aggregation", "txn", "assert_txn_aggregation")

AssertTxn ==
    /\ test.pc = "assert_txn_aggregation"
    /\ Asserted("assert_txn_aggregation", "txn",
                Len(test.txn.public_values.mem_before),
                Len(test.txn.public_values.mem_before), "prove_block")

ProveBlock ==
    /\ test.pc = "prove_block"
    /\ \E r \in {[tag |-> "Err"],
                 prove_block(test.txn.proof, test.txn.public_values)} :
          Proved("prove_block", "block", r, "verify_block")

VerifyBlock == Verified("verify_block", "block", "assert_block")

AssertBlock ==
    /\ test.pc = "assert_block"
    /\ Asserted("assert_block", "block",
                Len(test.block.public_values.mem_before),
                Len(test.block.public_values.mem_before), "final_verify")

\* verifier.verify(block_proof), the value the test returns
FinalVerify ==
    /\ test.pc = "final_verify"
    /\ \E v \in verify(test.block.proof) : test' = Return(test, v)
    /\ PipelineFrame

NextPipeline ==
    \/ ProveFinalRoot \/ VerifyFinalRoot \/ ProveFirstRoot \/ VerifyFirstRoot
    \/ AssertFirstRoot \/ AssertFinalRoot
    \/ ProveSegmentAgg \/ VerifySegmentAgg \/ AssertSegmentAgg
    \/ ProveTxn \/ VerifyTxn \/ AssertTxn
    \/ ProveBlock \/ VerifyBlock \/ AssertBlock
    \/ FinalVerify

SpecPipeline == InitPipeline /\ [][NextPipeline]_vars


(***************************************************************************)
(* Properties of the test's pipeline (SpecPipeline).                       *)
(***************************************************************************)
Levels == {"final_root", "root", "segmented_agg", "txn", "block"}

Exists(level) == test[level] # None

Failed == test.outcome \in {"Err", "panicked"}

LevelsOrdered ==
    /\ Exists("segmented_agg") => Exists("root") /\ Exists("final_root")
    /\ Exists("txn") => Exists("segmented_agg")
    /\ Exists("block") => Exists("txn")

\* C5: a pairwise aggregate is produced only after both of its children's
\* proofs exist, the transaction aggregate only after its segment aggregate,
\* the block proof only after its transaction aggregate; and once proving or
\* verification has failed at a level, no further proof is produced.
C5_LevelsOrderedAndGated ==
    /\ []LevelsOrdered
    /\ [][Failed => \A level \in Levels : test'[level] = test[level]]_vars

\* the segment aggregate was produced and its verification failed: the test
\* has returned the error with no transaction aggregate
C5_Witness ==
    /\ Failed
    /\ Exists("segmented_agg")
    /\ ~Exists("txn")

(***************************************************************************)
(* The bit range of stored values (SpecMem).                               *)
(***************************************************************************)
\* every value a state holds is within the bit range of its segment
AllStoredInRange(cs) ==
    \A c \in 1..Len(cs) : \A s \in 0..(Segment_COUNT - 1) :
        \A i \in 1..Len(cs[c][s]) : U256_bits(cs[c][s][i]) <= bit_range(s)

\* the state after holds no cell the state before did not hold, and the cells
\* of the state before hold what they held
NoValueStored(before, after) ==
    \A c \in 1..Len(after) : \A s \in 0..(Segment_COUNT - 1) :
        after[c][s] = IF c <= Len(before) THEN before[c][s] ELSE <<>>

\* C11: every state reached from MemoryState::new by set and apply_ops calls
\* holds only values within their segment's bit range, and a set of a value
\* beyond its segment's bit range panics and stores no value.
C11_StoredValuesInRange ==
    /\ []AllStoredInRange(contexts)
    /\ [][(calls' = calls + 1 /\ call'.name = "set"
                /\ call'.address.segment < Segment_COUNT) =>
              \A v \in Values :
                  (/\ ~(U256_bits(v) <= bit_range(call'.address.segment))
                   /\ Set(call'.address, v))
                      => (call'.panic /\ NoValueStored(contexts, contexts'))]_vars

\* a set of a 9-bit value in the code segment of a context that did not exist
\* panicked, after a set had stored a value
C11_Witness ==
    /\ call.name = "set"
    /\ call.panic
    /\ call.address.segment = Segment_Code
    /\ call.address.context = 1
    /\ written # {}
    /\ \E c \in 1..Len(contexts) : \E s \in 0..(Segment_COUNT - 1) :
          \E i \in 1..Len(contexts[c][s]) : contexts[c][s][i] # U256_zero


(***************************************************************************)
(* MemAfterStark::generate_trace (SpecTrace).  The columns of the table    *)
(* (mem_after/columns.rs) are outside the files at hand: the filter, the   *)
(* three address columns and the eight limbs of the value, as ctl_data and *)
(* ctl_filter use them.  A field element is a small natural number.        *)
(***************************************************************************)
MaxRows == 17

FILTER == 0
NUM_VALUE_LIMBS == 8
\* the filter, the context, the segment, the offset and the value's limbs
NUM_COLUMNS == 4 + NUM_VALUE_LIMBS
F_ZERO == 0
MinTraceRows == 16

\* a faulty rounding: the smallest power of two above n
RECURSIVE power_of_two_above(_, _)
power_of_two_above(n, pow) == IF pow > n THEN pow ELSE power_of_two_above(n, 2 * pow)

next_power_of_two_above(n) == power_of_two_above(n, 1)

\* usize::next_power_of_two: the smallest power of two that is at least n
RECURSIVE power_of_two_from(_, _)
power_of_two_from(n, pow) == IF pow >= n THEN pow ELSE power_of_two_from(n, 2 * pow)

next_power_of_two(n) == power_of_two_from(n, 1)

max(a, b) == IF a >= b THEN a ELSE b

\* util::transpose: the columns of a list of rows, as wide as its first row
transpose(rows) ==
    [c \in 1..Len(rows[1]) |-> [r \in 1..Len(rows) |-> rows[r][c]]]

\* MemAfterStark::generate_trace
generate_trace(values) ==
    LET num_rows == Len(values)
        num_rows_padded == max(MinTraceRows, next_power_of_two(num_rows))
        rows == values \o [i \in 1..(num_rows_padded - num_rows) |->
                               [c \in 1..NUM_COLUMNS |-> F_ZERO]]
    IN  transpose(rows)

\* a row of the final memory: the filter set, an address and a value
FinalRow(context, segment, virt, limbs) ==
    <<1, context, segment, virt>> \o limbs

\* the rows the trace is generated from: two cells with different values
FinalRows ==
    {FinalRow(0, 0, 0, <<1, 0, 0, 0, 0, 0, 0, 0>>),
     FinalRow(1, 1, 1, <<2, 3, 0, 0, 0, 0, 0, 7>>)}

InitTrace ==
    /\ final_values = <<>>
    /\ trace = NoTrace
    /\ ClockIdle
    /\ FieldIdle
    /\ MulIdle
    /\ AddrIdle
    /\ MemIdle
    /\ LogIdle
    /\ AggIdle

\* the caller collects one more row of the final memory
PushFinalValue(row) ==
    /\ ~trace.made
    /\ Len(final_values) < MaxRows
    /\ final_values' = Append(final_values, row)
    /\ UNCHANGED <<trace, new_args, power, mul_call, addrVars, memVars, logVars, aggVars>>

GenerateTrace ==
    /\ ~trace.made
    /\ trace' = [made |-> TRUE, columns |-> generate_trace(final_values)]
    /\ UNCHANGED <<final_values, new_args, power, mul_call, addrVars, memVars, logVars, aggVars>>

NextTrace ==
    \/ \E row \in FinalRows : PushFinalValue(row)
    \/ GenerateTrace

SpecTrace == InitTrace /\ [][NextTrace]_vars

\* row r of a trace given by its columns
TraceRow(columns, r) == [c \in 1..Len(columns) |-> columns[c][r]]

RECURSIVE IsPowerOfTwo(_)
IsPowerOfTwo(n) == n = 1 \/ (n > 1 /\ n % 2 = 0 /\ IsPowerOfTwo(n \div 2))

\* C12: the trace of n rows has max(16, smallest power of two >= n) rows in
\* each of its columns; its first n rows are the input rows in their order
\* and every later row is zero in every column, the filter included.
C12_TracePadded ==
    trace.made =>
        LET n == Len(final_values)
            len == Len(trace.columns[1])
        IN  /\ Len(trace.columns) = NUM_COLUMNS
            /\ \A c \in 1..NUM_COLUMNS : Len(trace.columns[c]) = len
            /\ IsPowerOfTwo(len)
            /\ len >= 16
            /\ len >= n
            /\ len > 16 => len \div 2 < n
            /\ n = 0 => len = 16
            /\ \A r \in 1..n : TraceRow(trace.columns, r) = final_values[r]
            /\ \A r \in (n + 1)..len :
                  /\ \A c \in 1..NUM_COLUMNS : trace.columns[c][r] = 0
                  /\ trace.columns[FILTER + 1][r] = 0

\* seventeen rows, not all the same, were padded to thirty-two
C12_Witness ==
    /\ trace.made
    /\ Len(final_values) = 17
    /\ final_values[1] # final_values[2]
    /\ Len(trace.columns[1]) = 32


(***************************************************************************)
(* Accesses to an address of no known segment (SpecMem).                   *)
(***************************************************************************)
\* the step is a call of get or set on an address whose segment index is
\* not below Segment::COUNT
AccessOfUnknownSegment ==
    /\ calls' = calls + 1
    /\ call'.name \in {"get", "set"}
    /\ call'.address.segment >= Segment_COUNT

\* C13: every get and every set on an address whose segment is not a known
\* segment aborts, whatever the address's context: it returns no value and
\* stores none.
C13_UnknownSegmentAborts ==
    [][AccessOfUnknownSegment =>
          (call'.panic /\ NoValueStored(contexts, contexts'))]_vars


(***************************************************************************)
(* The operations of one segment as MemoryOp::new builds them (SpecClock). *)
(* The clocks of a segment are its cycle counts, far below the width of    *)
(* usize.                                                                  *)
(***************************************************************************)
MaxOps == 2
MaxClock == 2

\* the channels a caller may name: the last one is past NUM_GP_CHANNELS
Channels == {Code} \cup {GeneralPurpose(n) : n \in 0..NUM_GP_CHANNELS}

\* the assertion of MemoryChannel::index
index_asserts(channel) == channel.variant = "Code" \/ channel.n < NUM_GP_CHANNELS

ClockAddress == MemoryAddress_new(0, Segment_COUNT - 1, 0)

InitClock ==
    /\ new_args = <<>>
    /\ ops = <<>>
    /\ sorted = <<>>
    /\ kernel_code = <<>>
    /\ contexts = MemoryState_default
    /\ written = {}
    /\ call = NoCall
    /\ calls = 0
    /\ TableIdle
    /\ FieldIdle
    /\ MulIdle
    /\ AddrIdle
    /\ AggIdle

\* MemoryOp::new(channel, clock, address, kind, value), the operation pushed
\* on the segment's log; a channel that fails the assertion panics
NewMemoryOp(channel, clock, kind) ==
    /\ Len(ops) < MaxOps
    /\ ~call.panic
    /\ IF index_asserts(channel)
       THEN /\ ops' = Append(ops, MemoryOp_new(channel, clock, ClockAddress, kind,
                                               U256_from(1)))
            /\ new_args' = Append(new_args, [channel |-> channel, clock |-> clock])
            /\ call' = [name |-> "MemoryOp::new", panic |-> FALSE]
       ELSE /\ call' = [name |-> "MemoryOp::new", panic |-> TRUE]
            /\ UNCHANGED <<ops, new_args>>
    /\ calls' = calls + 1
    /\ UNCHANGED <<kernel_code, contexts, written, sorted, final_values, trace, power, mul_call,
                   addrVars, aggVars>>

NextClock ==
    \E channel \in Channels, clock \in 0..MaxClock, kind \in {"Read", "Write"} :
        NewMemoryOp(channel, clock, kind)

SpecClock == InitClock /\ [][NextClock]_vars

\* the index the claim gives a channel: 0 for Code, n + 1 for GeneralPurpose(n)
ClaimedIndex(channel) ==
    CASE channel.variant = "Code" -> 0
      [] channel.variant = "GeneralPurpose" -> channel.n + 1

\* C14: every operation MemoryOp::new returns has the timestamp
\* clock * NUM_CHANNELS + index of its channel (0 for Code, n + 1 for
\* GeneralPurpose(n), n < NUM_GP_CHANNELS); two operations of the segment with
\* different (clock, channel) have different timestamps, ordered by clock
\* first and by channel index second.
C14_TimestampOrdersClockAndChannel ==
    /\ Len(new_args) = Len(ops)
    /\ \A i \in 1..Len(ops) :
          /\ new_args[i].channel.variant = "GeneralPurpose"
                => new_args[i].channel.n < NUM_GP_CHANNELS
          /\ ops[i].timestamp =
                new_args[i].clock * NUM_CHANNELS + ClaimedIndex(new_args[i].channel)
    /\ \A i, j \in 1..Len(ops) :
          LET a == new_args[i]
              b == new_args[j]
          IN  /\ a # b => ops[i].timestamp # ops[j].timestamp
              /\ ops[i].timestamp < ops[j].timestamp <=>
                    \/ a.clock < b.clock
                    \/ /\ a.clock = b.clock
                       /\ ClaimedIndex(a.channel) < ClaimedIndex(b.channel)

\* the last general purpose channel at one clock came before the code channel
\* at the next clock
C14_Witness ==
    /\ Len(ops) = 2
    /\ new_args[1] = [channel |-> GeneralPurpose(NUM_GP_CHANNELS - 1), clock |-> 0]
    /\ new_args[2] = [channel |-> Code, clock |-> 1]
    /\ ops[1].timestamp < ops[2].timestamp


(***************************************************************************)
(* Natural numbers of any width, as the field arithmetic needs them: a     *)
(* number is the sequence of its base-256 digits, lowest first; a u64 has  *)
(* eight digits, a u128 sixteen.                                           *)
(***************************************************************************)
DigitBase == 256
U64Digits == 8

\* the digits of a number without its leading zeros
RECURSIVE N_norm(_)
N_norm(a) ==
    IF a = <<>> THEN <<>>
    ELSE IF a[Len(a)] = 0 THEN N_norm(SubSeq(a, 1, Len(a) - 1))
    ELSE a

\* a number in width digits (it fits)
N_pad(a, width) == a \o [i \in 1..(width - Len(a)) |-> 0]

RECURSIVE N_add_carry(_, _, _)
N_add_carry(a, b, carry) ==
    IF a = <<>> /\ b = <<>>
    THEN IF carry = 0 THEN <<>> ELSE <<carry>>
    ELSE LET x == IF a = <<>> THEN 0 ELSE Head(a)
             y == IF b = <<>> THEN 0 ELSE Head(b)
             sum == x + y + carry
         IN  <<sum % DigitBase>>
                 \o N_add_carry(IF a = <<>> THEN <<>> ELSE Tail(a),
                                IF b = <<>> THEN <<>> ELSE Tail(b),
                                sum \div DigitBase)

N_add(a, b) == N_add_carry(a, b, 0)

\* a - b for a >= b, in the width of a
RECURSIVE N_sub_borrow(_, _, _)
N_sub_borrow(a, b, borrow) ==
    IF a = <<>> THEN <<>>
    ELSE LET y == IF b = <<>> THEN 0 ELSE Head(b)
             diff == Head(a) - y - borrow
         IN  <<diff % DigitBase>>
                 \o N_sub_borrow(Tail(a), IF b = <<>> THEN <<>> ELSE Tail(b),
                                 IF diff < 0 THEN 1 ELSE 0)

N_sub(a, b) == N_sub_borrow(a, b, 0)

RECURSIVE N_mul_digit(_, _, _)
N_mul_digit(a, d, carry) ==
    IF a = <<>>
    THEN IF carry = 0 THEN <<>> ELSE <<carry>>
    ELSE LET prod == Head(a) * d + carry
         IN  <<prod % DigitBase>> \o N_mul_digit(Tail(a), d, prod \div DigitBase)

RECURSIVE N_mul(_, _)
N_mul(a, b) ==
    IF a = <<>> THEN <<>>
    ELSE N_add(N_mul_digit(b, Head(a), 0), <<0>> \o N_mul(Tail(a), b))

\* a < b, for numbers without leading zeros
RECURSIVE N_less(_, _)
N_less(a, b) ==
    IF Len(a) # Len(b) THEN Len(a) < Len(b)
    ELSE IF a = <<>> THEN FALSE
    ELSE IF a[Len(a)] # b[Len(b)] THEN a[Len(a)] < b[Len(b)]
    ELSE N_less(SubSeq(a, 1, Len(a) - 1), SubSeq(b, 1, Len(b) - 1))

N_lt(a, b) == N_less(N_norm(a), N_norm(b))

\* the bits of a number, lowest first, eight for each digit
N_bits(a) == [i \in 1..(8 * Len(a)) |-> (a[((i - 1) \div 8) + 1] \div Pow2((i - 1) % 8)) % 2]

(***************************************************************************)
(* CrandallField (crandall_field.rs is outside the files at hand): the     *)
(* integers modulo ORDER = 2^64 - 9 * 2^28 + 1, an element being a u64     *)
(* below ORDER.                                                            *)
(***************************************************************************)
\* 0xFFFFFFFF70000001
ORDER == <<1, 0, 0, 112, 255, 255, 255, 255>>

\* 2^64 - ORDER = 0x8FFFFFFF
EPSILON == <<255, 255, 255, 143>>

CrandallField(n) == N_pad(N_norm(n), U64Digits)

CrandallField_ZERO == CrandallField(<<>>)
CrandallField_ONE == CrandallField(<<1>>)

\* a number of any width modulo ORDER: 2^64 is EPSILON modulo ORDER
RECURSIVE N_mod_order(_)
N_mod_order(x) ==
    LET lo == SubSeq(x, 1, IF Len(x) < U64Digits THEN Len(x) ELSE U64Digits)
        hi == N_norm(SubSeq(x, U64Digits + 1, Len(x)))
    IN  IF hi = <<>>
        THEN IF N_lt(lo, ORDER) THEN CrandallField(lo)
             ELSE CrandallField(N_sub(N_pad(lo, U64Digits), ORDER))
        ELSE N_mod_order(N_add(N_mul(hi, EPSILON), lo))

\* Mul for CrandallField
CrandallField_mul(a, b) == N_mod_order(N_mul(a, b))

\* Field::exp_usize on the base field: the exponent is given by its bits,
\* lowest first
RECURSIVE CrandallField_exp(_, _, _)
CrandallField_exp(current, product, bits) ==
    IF bits = <<>> \/ Len(current) # U64Digits \/ Len(product) # U64Digits THEN product
    ELSE CrandallField_exp(CrandallField_mul(current, current),
                           IF Head(bits) = 1 THEN CrandallField_mul(product, current)
                           ELSE product,
                           Tail(bits))

exp_usize(base, bits) == CrandallField_exp(base, CrandallField_ONE, bits)

(***************************************************************************)
(* QuarticCrandallField: the polynomials a0 + a1*X + a2*X^2 + a3*X^3 over  *)
(* CrandallField modulo X^4 - W, an element being its four coefficients.   *)
(***************************************************************************)
\* const W: the element 3 of the base field
W == CrandallField(<<3>>)

QuarticCrandallField(a0, a1, a2, a3) == <<a0, a1, a2, a3>>

to_canonical_representation(x) == x

QuarticCrandallField_ZERO ==
    QuarticCrandallField(CrandallField_ZERO, CrandallField_ZERO, CrandallField_ZERO,
                         CrandallField_ZERO)

QuarticCrandallField_ONE ==
    QuarticCrandallField(CrandallField_ONE, CrandallField_ZERO, CrandallField_ZERO,
                         CrandallField_ZERO)

\* the bits of (ORDER - 1) / 4, lowest first
order_minus_one_over_four == SubSeq(N_bits(N_sub(ORDER, <<1>>)), 3, 8 * U64Digits)

\* z0 of frobenius: W.exp_usize(k) for k = (ORDER - 1) / 4
frobenius_z0 == exp_usize(W, order_minus_one_over_four)

\* a faulty frobenius: every coefficient but the first is multiplied by z0
frobenius_one_z(x) ==
    LET a == to_canonical_representation(x)
    IN  QuarticCrandallField(a[1], CrandallField_mul(a[2], frobenius_z0),
                             CrandallField_mul(a[3], frobenius_z0),
                             CrandallField_mul(a[4], frobenius_z0))

\* QuarticCrandallField::frobenius
frobenius(x) ==
    LET a == to_canonical_representation(x)
        z0 == frobenius_z0
        z_0 == CrandallField_ONE
        b0 == CrandallField_mul(a[1], z_0)
        z_1 == CrandallField_mul(z_0, z0)
        b1 == CrandallField_mul(a[2], z_1)
        z_2 == CrandallField_mul(z_1, z0)
        b2 == CrandallField_mul(a[3], z_2)
        z_3 == CrandallField_mul(z_2, z0)
        b3 == CrandallField_mul(a[4], z_3)
    IN  QuarticCrandallField(b0, b1, b2, b3)

\* the sum of a list of numbers
RECURSIVE N_sum(_)
N_sum(terms) == IF terms = <<>> THEN <<>> ELSE N_add(Head(terms), N_sum(Tail(terms)))

\* the product of two elements as polynomials modulo X^4 - W, in numbers of
\* any width, each coefficient then taken modulo ORDER
quartic_product(a, b) ==
    QuarticCrandallField(
        N_mod_order(N_sum(<<N_mul(a[1], b[1]),
                            N_mul(W, N_sum(<<N_mul(a[2], b[4]), N_mul(a[3], b[3]),
                                             N_mul(a[4], b[2])>>))>>)),
        N_mod_order(N_sum(<<N_mul(a[1], b[2]), N_mul(a[2], b[1]),
                            N_mul(W, N_sum(<<N_mul(a[3], b[4]), N_mul(a[4], b[3])>>))>>)),
        N_mod_order(N_sum(<<N_mul(a[1], b[3]), N_mul(a[2], b[2]), N_mul(a[3], b[1]),
                            N_mul(W, N_mul(a[4], b[4]))>>)),
        N_mod_order(N_sum(<<N_mul(a[1], b[4]), N_mul(a[2], b[3]), N_mul(a[3], b[2]),
                            N_mul(a[4], b[1])>>)))

(***************************************************************************)
(* An element raised to the power ORDER by squaring and multiplying, one   *)
(* bit of the exponent a step, and its frobenius (SpecFrobenius).          *)
(***************************************************************************)
\* ORDER - 1, the largest element of the base field
CrandallField_NEG_ONE == CrandallField(N_sub(ORDER, <<1>>))

\* the elements raised: zero, one, X, a small one, one with the largest
\* coefficients and one with coefficients of every width
FieldSamples ==
    {QuarticCrandallField_ZERO,
     QuarticCrandallField_ONE,
     QuarticCrandallField(CrandallField_ZERO, CrandallField_ONE, CrandallField_ZERO,
                          CrandallField_ZERO),
     QuarticCrandallField(CrandallField(<<2>>), CrandallField(<<3>>), CrandallField(<<5>>),
                          CrandallField(<<7>>)),
     QuarticCrandallField(CrandallField_NEG_ONE, CrandallField_NEG_ONE,
                          CrandallField_NEG_ONE, CrandallField_NEG_ONE),
     QuarticCrandallField(<<239, 205, 171, 137, 103, 69, 35, 1>>,
                          <<16, 50, 84, 118, 152, 186, 220, 254>>,
                          <<190, 186, 254, 202, 0, 0, 0, 0>>,
                          <<0, 0, 0, 0, 239, 190, 173, 222>>)}

ExponentBits == N_bits(ORDER)

InitFrobenius ==
    /\ \E x \in FieldSamples :
          power = [pc |-> "exp", x |-> x, current |-> x,
                   product |-> QuarticCrandallField_ONE, j |-> 0,
                   frobenius |-> QuarticCrandallField_ZERO]
    /\ MulIdle
    /\ TableIdle
    /\ ClockIdle
    /\ AddrIdle
    /\ MemIdle
    /\ LogIdle
    /\ AggIdle

FieldFrame ==
    UNCHANGED <<final_values, trace, new_args, mul_call, addrVars, memVars, logVars,
                aggVars>>

\* one bit of the exponent: the product takes the current square if the bit
\* is set, and the current square is squared
ExpStep ==
    /\ power.pc = "exp"
    /\ LET j == power.j + 1
       IN  power' = [power EXCEPT
                        !.product = IF ExponentBits[j] = 1
                                    THEN quartic_product(@, power.current)
                                    ELSE @,
                        !.current = quartic_product(@, @),
                        !.j = j,
                        !.pc = IF j = Len(ExponentBits) THEN "frobenius" ELSE "exp"]
    /\ FieldFrame

\* x.frobenius()
Frobenius ==
    /\ power.pc = "frobenius"
    /\ power' = [power EXCEPT !.frobenius = frobenius(power.x), !.pc = "done"]
    /\ FieldFrame

NextFrobenius == ExpStep \/ Frobenius

SpecFrobenius == InitFrobenius /\ [][NextFrobenius]_vars

\* C15: for every element x of the quartic extension field, x.frobenius() is
\* x raised to the power ORDER, the order of the base field.
C15_FrobeniusIsPowerOfOrder ==
    power.pc = "done" => power.frobenius = power.product

\* the power and the frobenius of an element with four different large
\* coefficients were computed, and the frobenius is not the element itself
C15_Witness ==
    /\ power.pc = "done"
    /\ power.j = 64
    /\ power.x[3] = <<190, 186, 254, 202, 0, 0, 0, 0>>
    /\ power.frobenius # power.x
    /\ power.frobenius[1] = power.x[1]


(***************************************************************************)
(* What a Read after the replayed log observes (SpecSort).                 *)
(***************************************************************************)
SortedByTimestamp(log) ==
    \A i, j \in 1..Len(log) : i < j => log[i].timestamp <= log[j].timestamp

\* the positions of the Writes to address in the log
WritesTo(log, address) ==
    {i \in 1..Len(log) : log[i].kind = "Write" /\ log[i].address = address}

\* the value of the last Write to address in the log, or initial if the log
\* holds no Write to it
LastWritten(log, address, initial) ==
    LET writes == WritesTo(log, address)
    IN  IF writes = {} THEN initial
        ELSE log[CHOOSE i \in writes : \A k \in writes : k <= i].value

\* C16: after apply_ops has replayed a log sorted by timestamp, get at every
\* address returns the value of the last Write to that address in the log,
\* or the value the address had before if the log holds no Write to it.
C16_ReadObservesLastWrite ==
    (calls = 1 /\ ~call.panic /\ SortedByTimestamp(sorted)) =>
        \A a \in KnownAddresses :
            LET before == get(MemoryState_new(kernel_code), a)
                after == get(contexts, a)
            IN  /\ ~after.panic
                /\ after.val = LastWritten(sorted, a, before.val)

\* two Writes of different values to one address were replayed in the order
\* of their timestamps, and the code image holds a value no Write touched
C16_Witness ==
    /\ calls = 1
    /\ ~call.panic
    /\ SortedByTimestamp(sorted)
    /\ Len(sorted) = 2
    /\ sorted[1].kind = "Write" /\ sorted[2].kind = "Write"
    /\ sorted[1].address = sorted[2].address
    /\ sorted[1].timestamp < sorted[2].timestamp
    /\ sorted[1].value # sorted[2].value
    /\ get(contexts, sorted[1].address).val = sorted[2].value
    /\ kernel_code # <<>>


(***************************************************************************)
(* Padding rows in a replayed log (SpecLog).                               *)
(***************************************************************************)
Genuine(op) == op.filter

\* C17: apply_ops gives the same memory state as apply_ops on the log without
\* its rows of filter false: padding rows have no effect on the memory.
C17_PaddingRowsHaveNoEffect ==
    calls = 1 =>
        LET r == apply_ops(MemoryState_new(kernel_code), SelectSeq(ops, Genuine))
        IN  /\ r.panic = call.panic
            /\ r.contexts = contexts


(***************************************************************************)
(* GlobalMetadata (cpu/kernel/constants/global_metadata.rs): a variant is  *)
(* its name, the enumeration the record of the variants' integer values.   *)
(***************************************************************************)
\* enum GlobalMetadata: `field as usize` is GlobalMetadata[field]
GlobalMetadata ==
    [
     LargestContext |-> 0, MemorySize |-> 1, TrieDataSize |-> 2, RlpDataSize |-> 3,
     StateTrieRoot |-> 4, ReceiptTrieRoot |-> 5, StateTrieRootDigestBefore |-> 6,
     ReceiptTrieRootDigestBefore |-> 7, StateTrieRootDigestAfter |-> 8,
     ReceiptTrieRootDigestAfter |-> 9, TrieEncodedChildSize |-> 10,
     BlockBeneficiary |-> 11, BlockTimestamp |-> 12, BlockNumber |-> 13,
     BlockDifficulty |-> 14, BlockRandom |-> 15, BlockGasLimit |-> 16,
     BlockChainId |-> 17, BlockBaseFee |-> 18, BlockGasUsed |-> 19,
     BlockGasUsedBefore |-> 20, BlockGasUsedAfter |-> 21, BlockCurrentHash |-> 22,
     RefundCounter |-> 23, AccessedAddressesLen |-> 24, AccessedStorageKeysLen |-> 25,
     SelfDestructListLen |-> 26, BloomEntryLen |-> 27, JournalLen |-> 28,
     JournalDataLen |-> 29, CurrentCheckpoint |-> 30, TouchedAddressesLen |-> 31,
     AccessListDataCost |-> 32, AccessListRlpStart |-> 33, AccessListRlpLen |-> 34,
     ContractCreation |-> 35, IsPrecompileFromEoa |-> 36, CallStackDepth |-> 37,
     LogsLen |-> 38, LogsDataLen |-> 39, LogsPayloadLen |-> 40, TxnNumberBefore |-> 41,
     TxnNumberAfter |-> 42, KernelHash |-> 43, KernelLen |-> 44
    ]

GlobalMetadata_COUNT == 45

\* a faulty list: BlockGasUsedAfter stands where BlockCurrentHash is listed
GlobalMetadata_all_repeated ==
    <<
     "LargestContext", "MemorySize", "TrieDataSize", "RlpDataSize", "StateTrieRoot",
     "ReceiptTrieRoot", "StateTrieRootDigestBefore", "ReceiptTrieRootDigestBefore",
     "StateTrieRootDigestAfter", "ReceiptTrieRootDigestAfter", "TrieEncodedChildSize",
     "BlockBeneficiary", "BlockTimestamp", "BlockNumber", "BlockDifficulty",
     "BlockRandom", "BlockGasLimit", "BlockChainId", "BlockBaseFee", "BlockGasUsed",
     "BlockGasUsedBefore", "BlockGasUsedAfter", "RefundCounter",
     "AccessedAddressesLen", "AccessedStorageKeysLen", "SelfDestructListLen",
     "BloomEntryLen", "JournalLen", "JournalDataLen", "CurrentCheckpoint",
     "TouchedAddressesLen", "AccessListDataCost", "AccessListRlpStart",
     "AccessListRlpLen", "ContractCreation", "IsPrecompileFromEoa", "CallStackDepth",
     "LogsLen", "LogsDataLen", "LogsPayloadLen", "BlockGasUsedAfter",
     "TxnNumberBefore", "TxnNumberAfter", "KernelHash", "KernelLen"
    >>

\* GlobalMetadata::all
GlobalMetadata_all ==
    <<
     "LargestContext", "MemorySize", "TrieDataSize", "RlpDataSize", "StateTrieRoot",
     "ReceiptTrieRoot", "StateTrieRootDigestBefore", "ReceiptTrieRootDigestBefore",
     "StateTrieRootDigestAfter", "ReceiptTrieRootDigestAfter", "TrieEncodedChildSize",
     "BlockBeneficiary", "BlockTimestamp", "BlockNumber", "BlockDifficulty",
     "BlockRandom", "BlockGasLimit", "BlockChainId", "BlockBaseFee", "BlockGasUsed",
     "BlockGasUsedBefore", "BlockGasUsedAfter", "RefundCounter",
     "AccessedAddressesLen", "AccessedStorageKeysLen", "SelfDestructListLen",
     "BloomEntryLen", "JournalLen", "JournalDataLen", "CurrentCheckpoint",
     "TouchedAddressesLen", "AccessListDataCost", "AccessListRlpStart",
     "AccessListRlpLen", "ContractCreation", "IsPrecompileFromEoa", "CallStackDepth",
     "LogsLen", "LogsDataLen", "LogsPayloadLen", "BlockCurrentHash", "TxnNumberBefore",
     "TxnNumberAfter", "KernelHash", "KernelLen"
    >>

\* the match of GlobalMetadata::var_name
var_names ==
    [
     LargestContext |-> "GLOBAL_METADATA_LARGEST_CONTEXT",
     MemorySize |-> "GLOBAL_METADATA_MEMORY_SIZE",
     TrieDataSize |-> "GLOBAL_METADATA_TRIE_DATA_SIZE",
     RlpDataSize |-> "GLOBAL_METADATA_RLP_DATA_SIZE",
     StateTrieRoot |-> "GLOBAL_METADATA_STATE_TRIE_ROOT",
     ReceiptTrieRoot |-> "GLOBAL_METADATA_RECEIPT_TRIE_ROOT",
     StateTrieRootDigestBefore |-> "GLOBAL_METADATA_STATE_TRIE_DIGEST_BEFORE",
     ReceiptTrieRootDigestBefore |-> "GLOBAL_METADATA_RECEIPT_TRIE_DIGEST_BEFORE",
     StateTrieRootDigestAfter |-> "GLOBAL_METADATA_STATE_TRIE_DIGEST_AFTER",
     ReceiptTrieRootDigestAfter |-> "GLOBAL_METADATA_RECEIPT_TRIE_DIGEST_AFTER",
     TrieEncodedChildSize |-> "GLOBAL_METADATA_TRIE_ENCODED_CHILD_SIZE",
     BlockBeneficiary |-> "GLOBAL_METADATA_BLOCK_BENEFICIARY",
     BlockTimestamp |-> "GLOBAL_METADATA_BLOCK_TIMESTAMP",
     BlockNumber |-> "GLOBAL_METADATA_BLOCK_NUMBER",
     BlockDifficulty |-> "GLOBAL_METADATA_BLOCK_DIFFICULTY",
     BlockRandom |-> "GLOBAL_METADATA_BLOCK_RANDOM",
     BlockGasLimit |-> "GLOBAL_METADATA_BLOCK_GAS_LIMIT",
     BlockChainId |-> "GLOBAL_METADATA_BLOCK_CHAIN_ID",
     BlockBaseFee |-> "GLOBAL_METADATA_BLOCK_BASE_FEE",
     BlockGasUsed |-> "GLOBAL_METADATA_BLOCK_GAS_USED",
     BlockGasUsedBefore |-> "GLOBAL_METADATA_BLOCK_GAS_USED_BEFORE",
     BlockGasUsedAfter |-> "GLOBAL_METADATA_BLOCK_GAS_USED_AFTER",
     BlockCurrentHash |-> "GLOBAL_METADATA_BLOCK_CURRENT_HASH",
     RefundCounter |-> "GLOBAL_METADATA_REFUND_COUNTER",
     AccessedAddressesLen |-> "GLOBAL_METADATA_ACCESSED_ADDRESSES_LEN",
     AccessedStorageKeysLen |-> "GLOBAL_METADATA_ACCESSED_STORAGE_KEYS_LEN",
     SelfDestructListLen |-> "GLOBAL_METADATA_SELFDESTRUCT_LIST_LEN",
     BloomEntryLen |-> "GLOBAL_METADATA_BLOOM_ENTRY_LEN",
     JournalLen |-> "GLOBAL_METADATA_JOURNAL_LEN",
     JournalDataLen |-> "GLOBAL_METADATA_JOURNAL_DATA_LEN",
     CurrentCheckpoint |-> "GLOBAL_METADATA_CURRENT_CHECKPOINT",
     TouchedAddressesLen |-> "GLOBAL_METADATA_TOUCHED_ADDRESSES_LEN",
     AccessListDataCost |-> "GLOBAL_METADATA_ACCESS_LIST_DATA_COST",
     AccessListRlpStart |-> "GLOBAL_METADATA_ACCESS_LIST_RLP_START",
     AccessListRlpLen |-> "GLOBAL_METADATA_ACCESS_LIST_RLP_LEN",
     ContractCreation |-> "GLOBAL_METADATA_CONTRACT_CREATION",
     IsPrecompileFromEoa |-> "GLOBAL_METADATA_IS_PRECOMPILE_FROM_EOA",
     CallStackDepth |-> "GLOBAL_METADATA_CALL_STACK_DEPTH",
     LogsLen |-> "GLOBAL_METADATA_LOGS_LEN",
     LogsDataLen |-> "GLOBAL_METADATA_LOGS_DATA_LEN",
     LogsPayloadLen |-> "GLOBAL_METADATA_LOGS_PAYLOAD_LEN",
     TxnNumberBefore |-> "GLOBAL_METADATA_TXN_NUMBER_BEFORE",
     TxnNumberAfter |-> "GLOBAL_METADATA_TXN_NUMBER_AFTER",
     KernelHash |-> "GLOBAL_METADATA_KERNEL_HASH",
     KernelLen |-> "GLOBAL_METADATA_KERNEL_LEN"
    ]

\* GlobalMetadata::var_name
var_name(field) == var_names[field]


(***************************************************************************)
(* The metadata fields read from the memory state (SpecMeta).  The segment *)
(* of the metadata is outside the files at hand: a segment of full-width   *)
(* words, here the last known one.                                         *)
(***************************************************************************)
Segment_GlobalMetadata == Segment_COUNT - 1

Variants == DOMAIN GlobalMetadata

\* MemoryState::read_global_metadata
read_global_metadata(cs, field) ==
    get(cs, MemoryAddress_new(0, Segment_GlobalMetadata, GlobalMetadata[field]))

\* the fields the kernel writes in the runs checked: the first one, the two
\* around the block hash, and the last one
FieldsWritten == {"LargestContext", "BlockCurrentHash", "RefundCounter", "KernelLen"}

InitMeta ==
    /\ kernel_code = <<>>
    /\ contexts = MemoryState_new(kernel_code)
    /\ written = {}
    /\ call = NoCall
    /\ calls = 0
    /\ AddrIdle
    /\ LogIdle
    /\ AggIdle
    /\ RestIdle

\* the kernel stores the value of a metadata field
SetMetadata(field, val) ==
    /\ Running
    /\ LET address == MemoryAddress_new(0, Segment_GlobalMetadata, GlobalMetadata[field])
           r == set(contexts, address, val)
       IN  /\ contexts' = r.contexts
           /\ written' = IF r.panic THEN written ELSE written \cup {address}
           /\ call' = [name |-> "set", address |-> address, panic |-> r.panic]
    /\ calls' = calls + 1
    /\ UNCHANGED <<kernel_code, addrVars, logVars, aggVars, restVars>>

ReadGlobalMetadata(field) ==
    /\ Running
    /\ LET r == read_global_metadata(contexts, field)
       IN  call' = [name |-> "read_global_metadata", field |-> field,
                    address |-> MemoryAddress_new(0, Segment_GlobalMetadata,
                                                  GlobalMetadata[field]),
                    panic |-> r.panic, val |-> r.val]
    /\ calls' = calls + 1
    /\ UNCHANGED <<kernel_code, contexts, written, addrVars, logVars, aggVars, restVars>>

NextMeta ==
    \/ \E field \in FieldsWritten, val \in {U256_from(1), U256_from(256)} :
          SetMetadata(field, val)
    \/ \E field \in Variants : ReadGlobalMetadata(field)

SpecMeta == InitMeta /\ [][NextMeta]_vars

\* the positions of all() that hold the variant
PositionsOf(field) ==
    {i \in 1..Len(GlobalMetadata_all) : GlobalMetadata_all[i] = field}

\* C18: all() has COUNT = 45 entries and holds every variant exactly once;
\* the variants' integer values are exactly 0..44, none twice; var_name gives
\* different variants different names; every field read lies inside the 45
\* offsets.
C18_AllVariantsOnce ==
    /\ GlobalMetadata_COUNT = 45
    /\ Len(GlobalMetadata_all) = GlobalMetadata_COUNT
    /\ \A i \in 1..Len(GlobalMetadata_all) : GlobalMetadata_all[i] \in Variants
    /\ \A field \in Variants : Cardinality(PositionsOf(field)) = 1
    /\ {GlobalMetadata[field] : field \in Variants} = 0..44
    /\ Cardinality(Variants) = 45
    /\ DOMAIN var_names = Variants
    /\ \A f, g \in Variants : f # g => var_name(f) # var_name(g)
    /\ call.name = "read_global_metadata" =>
          /\ PositionsOf(call.field) # {}
          /\ call.address.virt < GlobalMetadata_COUNT

\* the last field of the enumeration was read back after it was written
C18_Witness ==
    /\ call.name = "read_global_metadata"
    /\ call.field = "KernelLen"
    /\ call.address.virt = 44
    /\ ~call.panic
    /\ call.val = U256_from(256)

\* C19: all() lists the variants in the order of their integer values: its
\* i-th entry has the integer value i, so all() indexed by the offset of a
\* field that is read is that field.
C19_AllInValueOrder ==
    /\ \A i \in 0..(GlobalMetadata_COUNT - 1) :
          GlobalMetadata[GlobalMetadata_all[i + 1]] = i
    /\ call.name = "read_global_metadata" =>
          GlobalMetadata_all[call.address.virt + 1] = call.field


(***************************************************************************)
(* What a set changes and what it leaves alone (SpecMem).                  *)
(***************************************************************************)
\* the cells of the state after that the state before did not hold are zero,
\* but for the cell at address
NewCellsZero(before, after, address) ==
    \A c \in 1..Len(after) : \A s \in 0..(Segment_COUNT - 1) :
        \A i \in 1..Len(after[c][s]) :
            (/\ c > Len(before) \/ i > Len(before[c][s])
             /\ MemoryAddress_new(c - 1, s, i - 1) # address)
                => after[c][s][i] = U256_zero

\* no context is dropped and no segment gets shorter
NothingShrinks(before, after) ==
    /\ Len(after) >= Len(before)
    /\ \A c \in 1..Len(before) : \A s \in 0..(Segment_COUNT - 1) :
          Len(after[c][s]) >= Len(before[c][s])

\* C20: for an address a of a known segment and a value v within the
\* segment's bit range, set(a, v) returns; after it get(a) returns v and
\* get(b) returns what it returned before for every other address b of a
\* known segment; the number of contexts becomes max(old, a.context + 1), the
\* new cells are zero, and no context list or segment shrinks.
C20_SetThenGet ==
    [][(calls' = calls + 1 /\ call'.name = "set"
            /\ call'.address.segment < Segment_COUNT) =>
          \A v \in Values :
              (/\ U256_bits(v) <= bit_range(call'.address.segment)
               /\ Set(call'.address, v))
                  => /\ ~call'.panic
                     /\ get(contexts', call'.address) = [panic |-> FALSE, val |-> v]
                     /\ \A b \in KnownAddresses \ {call'.address} :
                           get(contexts', b) = get(contexts, b)
                     /\ Len(contexts') = max(Len(contexts), call'.address.context + 1)
                     /\ NewCellsZero(contexts, contexts', call'.address)
                     /\ NothingShrinks(contexts, contexts')]_vars

\* a set stored a value at the first offset of a segment of a later context
\* that holds a non-zero value at its second offset
C20_Witness ==
    /\ call.name = "set"
    /\ ~call.panic
    /\ call.address.context = 1
    /\ call.address.virt = 0
    /\ Len(contexts) = 2
    /\ Len(contexts[2][call.address.segment]) = 2
    /\ contexts[2][call.address.segment][2] # U256_zero
    /\ contexts[2][call.address.segment][1] # U256_zero


(***************************************************************************)
(* Mul for QuarticCrandallField (SpecMul).  The coefficients are widened   *)
(* to u128 and the four sums are computed in u128 before reduce128.  An    *)
(* overflow of a u128 operation panics in a build with overflow checks     *)
(* (debug) and wraps modulo 2^128 in one without (release): a u128 is      *)
(* modelled with the wrapped value (its digits without leading zeros) and  *)
(* whether an operation that led to it overflowed.                         *)
(***************************************************************************)
U128Digits == 16

\* the value n of any width as the result of a u128 operation
u128_result(n, overflowed) ==
    [val |-> N_norm(SubSeq(n, 1, IF Len(n) < U128Digits THEN Len(n) ELSE U128Digits)),
     overflow |-> overflowed \/ Len(N_norm(n)) > U128Digits]

\* `x.0 as u128`
as_u128(x) == u128_result(x, FALSE)

\* Add and Mul for u128
u128_add(x, y) == u128_result(N_add(x.val, y.val), x.overflow \/ y.overflow)
u128_mul(x, y) == u128_result(N_mul(x.val, y.val), x.overflow \/ y.overflow)

\* crandall_field::reduce128: a u128 modulo ORDER
reduce128(x) == N_mod_order(x.val)

\* the four sums Mul hands to reduce128
mul_sums(self, rhs) ==
    LET a0 == as_u128(self[1])
        a1 == as_u128(self[2])
        a2 == as_u128(self[3])
        a3 == as_u128(self[4])
        b0 == as_u128(rhs[1])
        b1 == as_u128(rhs[2])
        b2 == as_u128(rhs[3])
        b3 == as_u128(rhs[4])
        w == as_u128(W)
    IN  <<u128_add(u128_mul(a0, b0),
                   u128_mul(w, u128_add(u128_add(u128_mul(a1, b3), u128_mul(a2, b2)),
                                        u128_mul(a3, b1)))),
          u128_add(u128_add(u128_mul(a0, b1), u128_mul(a1, b0)),
                   u128_mul(w, u128_add(u128_mul(a2, b3), u128_mul(a3, b2)))),
          u128_add(u128_add(u128_add(u128_mul(a0, b2), u128_mul(a1, b1)),
                            u128_mul(a2, b0)),
                   u128_mul(u128_mul(w, a3), b3)),
          u128_add(u128_add(u128_add(u128_mul(a0, b3), u128_mul(a1, b2)),
                            u128_mul(a2, b1)),
                   u128_mul(a3, b0))>>

\* Mul::mul in a build: a panic where an operation overflowed and the build
\* checks overflows, the four reduced sums otherwise
mul(self, rhs, build) ==
    LET sums == mul_sums(self, rhs)
        overflow == [i \in 1..4 |-> sums[i].overflow]
    IN  IF build = "debug" /\ \E i \in 1..4 : overflow[i]
        THEN [panic |-> TRUE, overflow |-> overflow, c |-> QuarticCrandallField_ZERO]
        ELSE [panic |-> FALSE, overflow |-> overflow,
              c |-> QuarticCrandallField(reduce128(sums[1]), reduce128(sums[2]),
                                         reduce128(sums[3]), reduce128(sums[4]))]

Builds == {"debug", "release"}

\* the products made in a row by mul_assign
MaxMuls == 2

InitMul ==
    /\ \E self \in FieldSamples, rhs \in FieldSamples :
          mul_call = [pc |-> "args", self |-> self, rhs |-> rhs, muls |-> 0]
    /\ FieldIdle
    /\ TableIdle
    /\ ClockIdle
    /\ AddrIdle
    /\ MemIdle
    /\ LogIdle
    /\ AggIdle

MulFrame ==
    UNCHANGED <<final_values, trace, new_args, power, addrVars, memVars, logVars, aggVars>>

\* self * rhs
Mul(build) ==
    /\ mul_call.pc = "args"
    /\ mul_call.muls = 0
    /\ LET r == mul(mul_call.self, mul_call.rhs, build)
       IN  mul_call' = [pc |-> "done", op |-> "mul", build |-> build,
                        self |-> mul_call.self, rhs |-> mul_call.rhs,
                        panic |-> r.panic, overflow |-> r.overflow, c |-> r.c,
                        muls |-> 1]
    /\ MulFrame

\* self *= rhs: *self = *self * rhs
MulAssign(build) ==
    /\ mul_call.pc = "args"
    /\ mul_call.muls < MaxMuls
    /\ LET r == mul(mul_call.self, mul_call.rhs, build)
       IN  mul_call' =
               IF r.panic
               THEN [pc |-> "done", op |-> "mul_assign", build |-> build,
                     self |-> mul_call.self, rhs |-> mul_call.rhs,
                     panic |-> TRUE, overflow |-> r.overflow, c |-> r.c,
                     muls |-> mul_call.muls + 1]
               ELSE [pc |-> "args", self |-> r.c, rhs |-> mul_call.rhs,
                     muls |-> mul_call.muls + 1]
    /\ MulFrame

NextMul == \E build \in Builds : Mul(build) \/ MulAssign(build)

SpecMul == InitMul /\ [][NextMul]_vars

\* C21: for all elements a and b, a * b returns the product of the two
\* polynomials modulo X^4 - W with the coefficients reduced in the base field,
\* and none of the four u128 sums handed to reduce128 overflows.
C21_MulIsExactProduct ==
    (mul_call.pc = "done" /\ mul_call.op = "mul") =>
        /\ ~mul_call.panic
        /\ \A i \in 1..4 : ~mul_call.overflow[i]
        /\ mul_call.c = quartic_product(mul_call.self, mul_call.rhs)

====
